---- MODULE Spec2Model ----
(***************************************************************************)
(* Model of the blackice log-collection and query-safety pipeline:        *)
(*   src/src/logExplainer/logCollector.ts  (collectors, Loki rules, query) *)
(*   src/src/logExplainer/route.ts         (batch runner, HTTP handlers)   *)
(*   src/src/logExplainer/schema.ts        (request schemas)               *)
(* Each area has its own specification over the shared variables:          *)
(*   SpecFile  - incremental cursor reader (collectFileLogsIncremental)    *)
(*   SpecRules - Loki rules cache and label validation                     *)
(*   SpecBatch - POST /analyze/logs/batch, runConcurrent and the two paths *)
(*               that query the aggregator, in a deployment with Loki      *)
(*               enabled and a valid rules file                            *)
(*   SpecTail  - full tail reader (collectFileLogs) over a file at rest    *)
(*   SpecCmd   - POST /analyze/logs for the journal and container sources:  *)
(*               request schema, clampHours, runAllowedCommand and the      *)
(*               events of the child process and of the timer               *)
(*   LiveCmd   - SpecCmd with the timer of setTimeout firing eventually     *)
(*   SpecCollect - the single-target collectors side by side on a file at   *)
(*               rest                                                       *)
(***************************************************************************)
EXTENDS Integers, Sequences, FiniteSets, TLC

VARIABLES
  \* ---- configuration read from process.env when the module is loaded
  envMaxFileBytes,  \* Number(process.env.MAX_FILE_BYTES ?? 2_000_000)
  envMaxLinesCap,   \* Number(process.env.MAX_LINES_CAP ?? 2_000)
  envMaxHours,      \* Number(process.env.MAX_HOURS ?? 168)
  \* ---- file area
  file,        \* content of the allowlisted log file, a sequence of bytes
  edited,      \* ghost: the file was modified since the last call started
  incPc,       \* position of the incremental read: "idle" | "reading"
  incCall,     \* locals of the incremental read in progress
  incLast,     \* result of the last finished incremental read (<<>> if none)
  chain,       \* ghost: the polls of one caller who resumes at nextCursor
  tailPc,      \* position of the full tail read: "idle" | "reading"
  tailCall,    \* locals of the full tail read in progress
  tailLast,    \* outcome of the full tail read that finished last (<<>> if none)
  \* ---- POST /analyze/logs, command sources
  cmdPc,       \* "idle", "running" (promise pending), "settled"
  cmd,         \* the closure of runAllowedCommand: args, flags, buffers
  cmdLast,     \* the HTTP response of the request served last (<<>> if none)
  \* ---- Loki rules area
  rulesFile,        \* what LOKI_RULES_FILE holds on disk
  cachedLokiRules,  \* the module-level cache: <<>> (null) or <<rules>>
  rulesReads,       \* ghost: number of times the rules file was read and parsed
  valLast,          \* outcome of the last validateLokiLabels call (<<>> if none)
  \* ---- Loki collection area
  lokiEnabled,      \* isLokiEnabled(): LOKI_BASE_URL is set
  lokiSent,         \* the query strings sent to the aggregator so far
  lokiLast,         \* outcome of the last collectLokiBatchLogs call (<<>> if none)
  \* ---- POST /analyze/logs/batch
  batchPc,          \* "idle", "running" (inside runConcurrent), "done"
  body,             \* the request body being served (<<>> if none)
  items,            \* runConcurrent: items, indexed from 0
  results,          \* runConcurrent: results, indexed from 0
  index,            \* runConcurrent: the shared counter
  \* ---- queryLokiRange, the response of the aggregator
  queryLast,        \* outcome of the last queryLokiRange call (<<>> if none)
  \* ---- sanitizeReadOnlyAnalysisOutput
  redactLast,       \* outcome of the last call (<<>> if none)
  \* ---- analyzeLogsWithOllama
  ollama,           \* the locals of the call: attempt, lastError, how it ended
  \* ---- POST /v1/debate
  activeDebates,    \* the counter of registerDebateRoutes
  debates,          \* each request's position in the handler and its locals
  runners,          \* runConcurrent: each runner's position and its current
  response          \* the HTTP response (<<>> until it is sent)

envVars == <<envMaxFileBytes, envMaxLinesCap, envMaxHours>>

fileVars == <<file, edited, incPc, incCall, incLast>>

tailVars == <<tailPc, tailCall, tailLast>>

cmdVars == <<cmdPc, cmd, cmdLast>>

rulesVars == <<rulesFile, cachedLokiRules, rulesReads, valLast>>

lokiVars == <<lokiEnabled, lokiSent, lokiLast>>

batchVars == <<batchPc, body, items, results, index, runners, response>>

queryVars == <<queryLast>>

safetyVars == <<redactLast>>

debateVars == <<activeDebates, debates>>

ollamaVars == <<ollama>>

chainVars == <<chain>>

vars == <<envMaxFileBytes, envMaxLinesCap, envMaxHours,
          cmdPc, cmd, cmdLast,
          file, edited, incPc, incCall, incLast,
          tailPc, tailCall, tailLast,
          rulesFile, cachedLokiRules, rulesReads, valLast,
          lokiEnabled, lokiSent, lokiLast,
          batchPc, body, items, results, index, runners, response,
          queryLast, redactLast, activeDebates, debates, ollama, chain>>

(***************************************************************************)
(* Generic helpers                                                         *)
(***************************************************************************)
Min(a, b) == IF a <= b THEN a ELSE b

Max(a, b) == IF a >= b THEN a ELSE b

\* Array.prototype.slice(-n) for n >= 1
LastN(s, n) == IF Len(s) <= n THEN s ELSE SubSeq(s, Len(s) - n + 1, Len(s))

(***************************************************************************)
(* Bounds and scaled configuration of the file area                        *)
(***************************************************************************)
\* longest file content explored
MaxFileLen == 3
\* largest cursor a caller sends
MaxCursor == 3
\* largest maxLines a caller sends
MaxLinesReq == 1
\* MAX_FILE_BYTES of the deployment the incremental reader is explored in
\* (default 2_000_000, scaled down)
IncMaxFileBytes == 2
\* MAX_LINES_CAP of that deployment (default 2_000, scaled down)
IncMaxLinesCap == 1
\* line 10
MAX_FILE_BYTES == envMaxFileBytes
\* line 12
MAX_LINES_CAP == envMaxLinesCap
\* the largest hours AnalyzeLogsRequestSchema accepts (schema.ts line 3,
\* 168, scaled down)
ANALYZE_MAX_HOURS == 2
\* line 11
MAX_HOURS == envMaxHours
\* chunkSize of collectFileLogsIncremental (64 * 1024), scaled down
ChunkSize == 1

NL == "\n"

CR == "\r"

\* the bytes a file is made of
FileBytes == {"a", NL}

\* String.prototype.trimEnd over the byte alphabet
IsSpace(b) == b \in {NL, CR, " "}

RECURSIVE trimEnd(_)
trimEnd(text) ==
  IF Len(text) > 0 /\ IsSpace(text[Len(text)])
    THEN trimEnd(SubSeq(text, 1, Len(text) - 1))
    ELSE text

\* text.split(/\r?\n/): always at least one (possibly empty) line
RECURSIVE splitFrom(_, _, _, _)
splitFrom(text, i, cur, acc) ==
  IF i > Len(text) THEN Append(acc, cur)
  ELSE IF text[i] = NL
    THEN LET line == IF Len(cur) > 0 /\ cur[Len(cur)] = CR
                       THEN SubSeq(cur, 1, Len(cur) - 1) ELSE cur
         IN splitFrom(text, i + 1, <<>>, Append(acc, line))
    ELSE splitFrom(text, i + 1, Append(cur, text[i]), acc)

splitLines(text) == splitFrom(text, 1, <<>>, <<>>)

\* lines.join('\n')
RECURSIVE joinLines(_)
joinLines(lines) ==
  IF Len(lines) = 0 THEN <<>>
  ELSE IF Len(lines) = 1 THEN lines[1]
  ELSE lines[1] \o <<NL>> \o joinLines(Tail(lines))

\* a plausible slip: the cap is left out
clampMaxLinesUncapped(maxLines) == maxLines

\* line 73
clampMaxLines(maxLines) == Min(maxLines, MAX_LINES_CAP)

\* ALLOWED_LOG_FILES as parsed by parseAllowedFilePaths
FileTargets == {"a.log", "gone.log", "shadow"}

parseAllowedFilePaths == {"a.log", "gone.log"}

\* access(path, R_OK) succeeds
Readable == {"a.log", "shadow"}

NoCall ==
  [cursor |-> 0, maxLines |-> 1, safeMaxLines |-> 1, size |-> 0, fromCursor |-> 0,
   rotated |-> FALSE, truncatedByBytes |-> FALSE, position |-> 0,
   remaining |-> 0, chunks |-> <<>>, chained |-> FALSE, prevTruncated |-> FALSE,
   editedBefore |-> FALSE]

\* the value collectFileLogsIncremental resolves with (status 200) or the
\* error it rejects with (status of buildError, 500 when the error has none)
\* read is the number of bytes in chunks (Buffer.concat(chunks).length)
IncResult(call, status, logs, nextCursor, editedDuring, read) ==
  [status |-> status, cursor |-> call.cursor, size |-> call.size, logs |-> logs,
   maxLines |-> call.maxLines,
   read |-> read,
   fromCursor |-> call.fromCursor, nextCursor |-> nextCursor,
   rotated |-> call.rotated, truncatedByBytes |-> call.truncatedByBytes,
   chained |-> call.chained, prevTruncated |-> call.prevTruncated,
   unchanged |-> ~call.editedBefore /\ ~editedDuring]

\* a plausible slip: a cursor at the end of the file taken for a rotation
IsRotatedAtEnd(requestedCursor, size) == requestedCursor >= size

\* rotation test of line 817
IsRotated(requestedCursor, size) == requestedCursor > size

\* a plausible slip: the byte cap is left out of the limit
ReadBytesLimitUncapped(availableBytes) == availableBytes

\* readBytesLimit of line 833
ReadBytesLimit(availableBytes) == Min(MAX_FILE_BYTES, availableBytes)

\* a plausible slip: a range one byte over the cap is not reported as cut
TruncatedByBytesLate(availableBytes) == availableBytes > MAX_FILE_BYTES + 1

\* truncatedByBytes of line 834
TruncatedByBytes(availableBytes) == availableBytes > MAX_FILE_BYTES

\* a plausible slip: the cursor moves to the end of the file as stat-ed
NextCursorAtSize(position, size) == size

\* nextCursor of line 859: the position behind the last byte read
NextCursor(position, size) == position

\* lines 853-855
IncLogs(chunks, safeMaxLines) ==
  joinLines(LastN(splitLines(trimEnd(chunks)), safeMaxLines))

\* collectFileLogsIncremental up to its first read (lines 800-838)
IncStart(target, cursor, maxLines) ==
  /\ incPc = "idle"
  /\ edited' = FALSE
  /\ UNCHANGED file
  /\ UNCHANGED <<envVars, ollamaVars, queryVars, safetyVars, debateVars, cmdVars, tailVars, rulesVars, lokiVars, batchVars>>
  /\ LET safeMaxLines == clampMaxLines(maxLines)
         size == Len(file)
         requestedCursor == Max(0, cursor)
         rot == IsRotated(requestedCursor, size)
         fromCursor == IF rot THEN 0 ELSE Min(requestedCursor, size)
         availableBytes == size - fromCursor
         prevOk == Len(incLast) = 1 /\ incLast[1].status = 200
         call == [cursor |-> cursor, maxLines |-> maxLines,
                  safeMaxLines |-> safeMaxLines, size |-> size,
                  fromCursor |-> fromCursor, rotated |-> rot,
                  truncatedByBytes |-> TruncatedByBytes(availableBytes),
                  position |-> fromCursor,
                  remaining |-> ReadBytesLimit(availableBytes),
                  chunks |-> <<>>,
                  chained |-> prevOk /\ cursor = incLast[1].nextCursor,
                  prevTruncated |-> prevOk /\ incLast[1].truncatedByBytes,
                  editedBefore |-> edited]
     IN IF target \notin parseAllowedFilePaths
          THEN /\ incLast' = <<IncResult(NoCall, 403, <<>>, 0, FALSE, 0)>>
               /\ UNCHANGED <<incPc, incCall>>
        ELSE IF target \notin Readable
          THEN /\ incLast' = <<IncResult(NoCall, 500, <<>>, 0, FALSE, 0)>>
               /\ UNCHANGED <<incPc, incCall>>
        ELSE IF fromCursor >= size
          THEN /\ incLast' = <<IncResult([call EXCEPT !.truncatedByBytes = FALSE],
                                          200, <<>>, fromCursor, FALSE, 0)>>
               /\ UNCHANGED <<incPc, incCall>>
        ELSE /\ incPc' = "reading"
             /\ incCall' = call
             /\ UNCHANGED incLast

\* one iteration of the read loop (lines 840-851) and, when the loop ends,
\* the rest of the function (lines 853-863)
IncRead ==
  /\ incPc = "reading"
  /\ UNCHANGED <<file, edited>>
  /\ UNCHANGED <<envVars, ollamaVars, queryVars, safetyVars, debateVars, cmdVars, tailVars, rulesVars, lokiVars, batchVars>>
  /\ LET toRead == Min(ChunkSize, incCall.remaining)
         bytesRead == Min(toRead, Max(0, Len(file) - incCall.position))
         slice == SubSeq(file, incCall.position + 1, incCall.position + bytesRead)
         chunks == incCall.chunks \o slice
         position == incCall.position + bytesRead
         remaining == incCall.remaining - bytesRead
     IN IF bytesRead <= 0 \/ remaining <= 0
          THEN /\ incLast' = <<IncResult(incCall, 200,
                                          IncLogs(chunks, incCall.safeMaxLines),
                                          NextCursor(position, incCall.size),
                                          edited, Len(chunks))>>
               /\ incPc' = "idle"
               /\ incCall' = NoCall
          ELSE /\ incCall' = [incCall EXCEPT !.chunks = chunks,
                                             !.position = position,
                                             !.remaining = remaining]
               /\ UNCHANGED <<incPc, incLast>>

\* the environment appends a byte to the log file
FileAppend(b) ==
  /\ Len(file) < MaxFileLen
  /\ file' = Append(file, b)
  /\ edited' = TRUE
  /\ UNCHANGED <<incPc, incCall, incLast>>
  /\ UNCHANGED <<envVars, ollamaVars, queryVars, safetyVars, debateVars, cmdVars, tailVars, rulesVars, lokiVars, batchVars>>

\* the environment rotates the log file: it is replaced by an empty one
FileRotate ==
  /\ Len(file) > 0
  /\ file' = <<>>
  /\ edited' = TRUE
  /\ UNCHANGED <<incPc, incCall, incLast>>
  /\ UNCHANGED <<envVars, ollamaVars, queryVars, safetyVars, debateVars, cmdVars, tailVars, rulesVars, lokiVars, batchVars>>

\* the configuration of the deployment of SpecFile, SpecRules and SpecBatch
EnvInit ==
  /\ envMaxFileBytes = IncMaxFileBytes
  /\ envMaxLinesCap = IncMaxLinesCap
  /\ envMaxHours = ANALYZE_MAX_HOURS

\* the closure of runAllowedCommand before a call
NoCmd ==
  [command |-> "none", target |-> "", halfHours |-> 0, maxLines |-> 0,
   sinceHours |-> 0,
   lines |-> 0, unit |-> "", settled |-> FALSE, stdout |-> 0, stderr |-> <<>>,
   timeout |-> "none", child |-> "none"]

CmdIdle ==
  /\ cmdPc = "idle"
  /\ cmd = NoCmd
  /\ cmdLast = <<>>

\* the locals of collectFileLogs before a call
NoTail ==
  [target |-> "", maxLines |-> 1, safeMaxLines |-> 1, size |-> 0, position |-> 0,
   bytesCollected |-> 0, newlineCount |-> 0, chunks |-> <<>>]

TailIdle ==
  /\ tailPc = "idle"
  /\ tailCall = NoTail
  /\ tailLast = <<>>

FileInit ==
  /\ file = <<>>
  /\ edited = FALSE
  /\ incPc = "idle"
  /\ incCall = NoCall
  /\ incLast = <<>>

RulesIdle ==
  /\ rulesFile = [kind |-> "missing", doc |-> <<>>]
  /\ cachedLokiRules = <<>>
  /\ rulesReads = 0
  /\ valLast = <<>>

LokiIdle ==
  /\ lokiEnabled = TRUE
  /\ lokiSent = {}
  /\ lokiLast = <<>>

BatchIdle ==
  /\ batchPc = "idle"
  /\ body = <<>>
  /\ items = <<>>
  /\ results = <<>>
  /\ index = 0
  /\ runners = <<>>
  /\ response = <<>>

QueryIdle == queryLast = <<>>

SafetyIdle == redactLast = <<>>

DebateIdle ==
  /\ activeDebates = 0
  /\ debates = <<>>

\* the locals of analyzeLogsWithOllama before a call; attempts is a ghost:
\* the statuses the attempts made so far failed with (0 for none carried,
\* 200 for a response)
NoOllama ==
  [pc |-> "idle", retryAttempts |-> 0, attempt |-> 0, lastError |-> 0,
   result |-> 0, attempts |-> <<>>]

OllamaIdle == ollama = NoOllama

\* no caller's polls are followed
NoChain == [polls |-> <<>>, got |-> {}]

ChainIdle == chain = NoChain

\* the areas a specification of the collectors leaves at rest
OthersIdle == QueryIdle /\ SafetyIdle /\ DebateIdle /\ OllamaIdle /\ ChainIdle

FileNext ==
  \/ /\ \E t \in FileTargets, c \in 0..MaxCursor, m \in 1..MaxLinesReq : IncStart(t, c, m)
     /\ UNCHANGED chainVars
  \/ IncRead /\ UNCHANGED chainVars
  \/ (\E b \in FileBytes : FileAppend(b)) /\ UNCHANGED chainVars
  \/ FileRotate /\ UNCHANGED chainVars

InitFile == EnvInit /\ FileInit /\ TailIdle /\ CmdIdle /\ RulesIdle /\ LokiIdle /\ BatchIdle /\ OthersIdle

SpecFile == InitFile /\ [][FileNext]_vars

(***************************************************************************)
(* One caller polling a log file that only grows: every call of            *)
(* POST /analyze/logs/incremental sends the nextCursor of the response     *)
(* before it, the first one the default cursor 0 (schema.ts line 77).      *)
(***************************************************************************)
\* longest file content explored
MaxChainFileLen == 4
\* most polls of the caller
MaxPolls == 2
\* largest maxLines the caller sends, and MAX_LINES_CAP of the deployment
ChainMaxLines == 2
\* the smaller MAX_FILE_BYTES explored; the larger one covers the whole file
ChainLowFileBytes == 2

ChainBytes == {"a", "b", NL}

\* the lines of a text that are not empty, as a set
NonEmptyLines(text) ==
  {splitLines(text)[i] : i \in {j \in 1..Len(splitLines(text)) : Len(splitLines(text)[j]) > 0}}

\* the cursor the caller sends next
ChainCursor ==
  IF Len(chain.polls) = 0 THEN 0 ELSE chain.polls[Len(chain.polls)].nextCursor

\* the caller receives the result r of a poll
ChainAfter(r) ==
  [polls |-> Append(chain.polls,
                    [cursor |-> r.cursor, fromCursor |-> r.fromCursor,
                     nextCursor |-> r.nextCursor, rotated |-> r.rotated,
                     maxLines |-> r.maxLines, read |-> r.read]),
   got |-> chain.got \cup NonEmptyLines(r.logs)]

\* the caller polls: the call of collectFileLogsIncremental up to its first read
ChainPoll(m) ==
  /\ Len(chain.polls) < MaxPolls
  /\ IncStart("a.log", ChainCursor, m)
  /\ chain' = IF incPc' = "idle" THEN ChainAfter(incLast'[1]) ELSE chain

\* the read loop of the poll in progress
ChainRead ==
  /\ IncRead
  /\ chain' = IF incPc' = "idle" THEN ChainAfter(incLast'[1]) ELSE chain

\* the writer of the log appends a byte
ChainAppend(b) ==
  /\ Len(file) < MaxChainFileLen
  /\ file' = Append(file, b)
  /\ edited' = TRUE
  /\ UNCHANGED <<incPc, incCall, incLast, chain>>
  /\ UNCHANGED <<envVars, ollamaVars, queryVars, safetyVars, debateVars, cmdVars, tailVars, rulesVars, lokiVars, batchVars>>

ChainInit ==
  /\ envMaxFileBytes \in {ChainLowFileBytes, MaxChainFileLen}
  /\ envMaxLinesCap = ChainMaxLines
  /\ envMaxHours = ANALYZE_MAX_HOURS
  /\ FileInit
  /\ chain = NoChain

ChainNext ==
  \/ \E m \in 1..ChainMaxLines : ChainPoll(m)
  \/ ChainRead
  \/ \E b \in ChainBytes : ChainAppend(b)

InitChain ==
  ChainInit /\ TailIdle /\ CmdIdle /\ RulesIdle /\ LokiIdle /\ BatchIdle
    /\ QueryIdle /\ SafetyIdle /\ DebateIdle /\ OllamaIdle

SpecChain == InitChain /\ [][ChainNext]_vars

(***************************************************************************)
(* Claims about the incremental reader                                     *)
(***************************************************************************)
\* C36: in a chain of polls on a file that only grows, each poll sending the
\* nextCursor of the poll before it, every poll has rotated = FALSE and
\* fromCursor equal to the cursor sent, its bytes are the range from
\* fromCursor to nextCursor, and that range starts where the range of the
\* poll before it ended: no byte is read twice and none is skipped.
C36_ChainRangesAdjacent ==
  \A k \in 1..Len(chain.polls) :
    LET p == chain.polls[k]
    IN /\ ~p.rotated
       /\ p.fromCursor = p.cursor
       /\ p.fromCursor <= p.nextCursor
       /\ p.read = p.nextCursor - p.fromCursor
       /\ p.fromCursor = IF k = 1 THEN 0 ELSE chain.polls[k - 1].nextCursor

\* C36 witness: every poll of the chain returned new bytes, the first one
\* cut by the byte cap, the last one ending at the end of the grown file.
C36_Witness ==
  /\ Len(chain.polls) = MaxPolls
  /\ \A k \in 1..MaxPolls : chain.polls[k].nextCursor > chain.polls[k].fromCursor
  /\ chain.polls[1].nextCursor = envMaxFileBytes
  /\ chain.polls[MaxPolls].nextCursor = MaxChainFileLen
  /\ Len(file) = MaxChainFileLen
  /\ incPc = "idle"

\* the caller has read up to the end of the file
CaughtUp ==
  /\ incPc = "idle"
  /\ Len(chain.polls) > 0
  /\ ChainCursor = Len(file)

\* the lines of the file that are complete (terminated) and not empty
CompleteLines(text) ==
  IF Len(text) > 0 /\ text[Len(text)] = NL
    THEN NonEmptyLines(SubSeq(text, 1, Len(text) - 1))
    ELSE NonEmptyLines(text) \ {splitLines(text)[Len(splitLines(text))]}

\* C37 as stated: once the chain of polls has reached the end of the file,
\* every complete line of the file was in the logs of some poll.
C37_Original == CaughtUp => CompleteLines(file) \subseteq chain.got

\* the last incremental read finished with a result (not an error)
IncOk == Len(incLast) = 1 /\ incLast[1].status = 200

\* C9: a finished incremental read reports rotated = TRUE exactly when the
\* requested cursor is greater than the size the file had when it was
\* stat-ed; then fromCursor = 0, otherwise fromCursor is the cursor.
C9_RotatedIffCursorBeyondSize ==
  IncOk =>
    LET r == incLast[1]
    IN /\ r.rotated <=> (r.cursor > r.size)
       /\ r.rotated => r.fromCursor = 0
       /\ ~r.rotated => r.fromCursor = r.cursor

\* C9 witness: a stale cursor on a non-empty file; the read restarted at 0
\* and returned data.
C9_Witness ==
  /\ IncOk
  /\ incLast[1].cursor > incLast[1].size
  /\ incLast[1].size > 0
  /\ incLast[1].rotated
  /\ incLast[1].fromCursor = 0
  /\ incLast[1].nextCursor > 0

\* the last read resumed at the previous read's nextCursor and the file was
\* not modified from the start of the previous read to the end of this one
IncSteady == IncOk /\ incLast[1].chained /\ incLast[1].unchanged

IncNoNewData ==
  /\ incLast[1].logs = <<>>
  /\ ~incLast[1].rotated
  /\ incLast[1].nextCursor = incLast[1].cursor

\* C10 as stated: on an unchanged file a read at the previous nextCursor
\* returns empty logs, rotated = FALSE and nextCursor = cursor.
C10_Original == IncSteady => IncNoNewData

\* C10 amended: the same, when the previous read was not cut by the byte cap
\* (a cut read leaves nextCursor before the end of the file, and the next
\* read returns the bytes that follow).
C10_SteadyStateAfterCompleteRead ==
  (IncSteady /\ ~incLast[1].prevTruncated) => IncNoNewData

\* C10 witness: a previous complete read of a non-empty file, then the
\* polling read at its nextCursor.
C10_Witness ==
  /\ IncSteady
  /\ ~incLast[1].prevTruncated
  /\ incLast[1].cursor > 0
  /\ incLast[1].cursor = incLast[1].size
  /\ IncNoNewData

\* C11: a finished incremental read on a file of size S (as stat-ed) has
\* fromCursor <= nextCursor <= S, advances by at most
\* min(MAX_FILE_BYTES, S - fromCursor), ends at fromCursor plus the bytes
\* actually read, and reports truncatedByBytes exactly when
\* S - fromCursor > MAX_FILE_BYTES.
C11_CursorBounds ==
  IncOk =>
    LET r == incLast[1]
    IN /\ r.fromCursor <= r.nextCursor
       /\ r.nextCursor <= r.size
       /\ r.nextCursor - r.fromCursor
            <= Min(MAX_FILE_BYTES, r.size - r.fromCursor)
       /\ r.nextCursor = r.fromCursor + r.read
       /\ r.truncatedByBytes <=> (r.size - r.fromCursor > MAX_FILE_BYTES)

\* C11 witness: more bytes available than the cap; the read stopped at the
\* cap, short of the end of the file.
C11_Witness ==
  /\ IncOk
  /\ incLast[1].truncatedByBytes
  /\ incLast[1].read = MAX_FILE_BYTES
  /\ incLast[1].nextCursor = incLast[1].fromCursor + MAX_FILE_BYTES
  /\ incLast[1].nextCursor < incLast[1].size

(***************************************************************************)
(* Full tail reader: collectFileLogs                                       *)
(***************************************************************************)
\* longest file content the tail reader is explored on
MaxTailLen == 6
\* largest maxLines a caller of the tail reader sends
MaxTailLines == 3
\* MAX_FILE_BYTES of the deployment the tail reader is explored in
\* (default 2_000_000, scaled down)
TailMaxFileBytes == 5
\* MAX_LINES_CAP of that deployment (default 2_000, scaled down)
TailMaxLinesCap == 2
\* chunkSize of collectFileLogs (64 * 1024), scaled down: a chunk may start
\* in the middle of a line
TailChunkSize == 2

\* the bytes a tailed file is made of
TailBytes == {"a", "b", " ", NL, CR}

TailFiles == UNION {[1..n -> TailBytes] : n \in 0..MaxTailLen}

\* the for loop of lines 898-902
CountNewlines(slice) == Cardinality({i \in 1..Len(slice) : slice[i] = NL})

\* a plausible slip: the chunk read is pushed behind the later ones
Push(chunks, slice) == chunks \o slice

\* chunks.unshift(slice) of line 895, seen through Buffer.concat(chunks)
Unshift(chunks, slice) == slice \o chunks

\* a plausible slip: the requested count is used where the clamped one belongs
TailLogsUnclamped(call) ==
  joinLines(LastN(splitLines(trimEnd(call.chunks)), call.maxLines))

\* lines 905-907
TailLogs(call) ==
  joinLines(LastN(splitLines(trimEnd(call.chunks)), call.safeMaxLines))

\* the condition of the while loop, line 888
TailContinue(call) ==
  /\ call.position > 0
  /\ call.bytesCollected < MAX_FILE_BYTES
  /\ call.newlineCount <= call.safeMaxLines

\* the string collectFileLogs resolves with (status 200) or the error it
\* rejects with (status of buildError, 500 when the error has none)
TailResult(call, status, logs) ==
  [status |-> status, target |-> call.target, maxLines |-> call.maxLines,
   safeMaxLines |-> call.safeMaxLines, size |-> call.size,
   position |-> call.position, bytesCollected |-> call.bytesCollected,
   newlineCount |-> call.newlineCount, logs |-> logs]

\* collectFileLogs up to its first read (lines 869-888)
TailStart(target, maxLines) ==
  /\ tailPc = "idle"
  /\ UNCHANGED <<envVars, chainVars, ollamaVars, queryVars, safetyVars, debateVars, cmdVars, fileVars, rulesVars, lokiVars, batchVars>>
  /\ LET call == [target |-> target, maxLines |-> maxLines,
                  safeMaxLines |-> clampMaxLines(maxLines),
                  size |-> Len(file), position |-> Len(file),
                  bytesCollected |-> 0, newlineCount |-> 0, chunks |-> <<>>]
     IN IF target \notin parseAllowedFilePaths
          THEN /\ tailLast' = <<TailResult([NoTail EXCEPT !.target = target],
                                           403, <<>>)>>
               /\ UNCHANGED <<tailPc, tailCall>>
        ELSE IF target \notin Readable
          THEN /\ tailLast' = <<TailResult([NoTail EXCEPT !.target = target],
                                           500, <<>>)>>
               /\ UNCHANGED <<tailPc, tailCall>>
        ELSE IF ~TailContinue(call)
          THEN /\ tailLast' = <<TailResult(call, 200, TailLogs(call))>>
               /\ UNCHANGED <<tailPc, tailCall>>
        ELSE /\ tailPc' = "reading"
             /\ tailCall' = call
             /\ tailLast' = <<>>

\* one iteration of the backward read loop (lines 888-902) and, when the loop
\* ends, the rest of the function (lines 905-907)
TailRead ==
  /\ tailPc = "reading"
  /\ UNCHANGED <<envVars, chainVars, ollamaVars, queryVars, safetyVars, debateVars, cmdVars, fileVars, rulesVars, lokiVars, batchVars>>
  /\ LET toRead == Min(TailChunkSize, tailCall.position)
         position == tailCall.position - toRead
         bytesRead == Min(toRead, Max(0, Len(file) - position))
         slice == SubSeq(file, position + 1, position + bytesRead)
         call == [tailCall EXCEPT !.position = position,
                                  !.chunks = Unshift(tailCall.chunks, slice),
                                  !.bytesCollected = @ + bytesRead,
                                  !.newlineCount = @ + CountNewlines(slice)]
     IN IF TailContinue(call)
          THEN /\ tailCall' = call
               /\ UNCHANGED <<tailPc, tailLast>>
          ELSE /\ tailLast' = <<TailResult(call, 200, TailLogs(call))>>
               /\ tailPc' = "idle"
               /\ tailCall' = NoTail

\* the paths callers of the tail reader name; the last has a character
\* outside [a-zA-Z0-9._:@/-] and is not in ALLOWED_LOG_FILES
TailTargets == FileTargets \cup {"my log"}

\* a deployment with the tail reader's caps and a log file at rest
TailInit ==
  /\ envMaxFileBytes = TailMaxFileBytes
  /\ envMaxLinesCap = TailMaxLinesCap
  /\ envMaxHours = ANALYZE_MAX_HOURS
  /\ file \in TailFiles
  /\ edited = FALSE
  /\ incPc = "idle"
  /\ incCall = NoCall
  /\ incLast = <<>>

TailNext ==
  \/ \E t \in TailTargets, m \in 1..MaxTailLines : TailStart(t, m)
  \/ TailRead

InitTail == TailInit /\ TailIdle /\ CmdIdle /\ RulesIdle /\ LokiIdle /\ BatchIdle /\ OthersIdle

SpecTail == InitTail /\ [][TailNext]_vars

\* the read the loop awaits comes back: a loop that can take its next step
\* takes it
LiveTail == SpecTail /\ WF_vars(TailRead)

(***************************************************************************)
(* Claims about the full tail reader                                       *)
(***************************************************************************)
\* the last full tail read finished with a result (not an error)
TailOk == Len(tailLast) = 1 /\ tailLast[1].status = 200

\* the lines of a file: its text split at \n or \r\n, the terminator of the
\* last line not starting a further line
FileLines(text) ==
  IF Len(text) = 0 THEN <<>>
  ELSE IF text[Len(text)] = NL
    THEN SubSeq(splitLines(text), 1, Len(splitLines(text)) - 1)
    ELSE splitLines(text)

\* the text ends with its last line: no white space behind it but the
\* terminator of that line
EndsClean(text) ==
  \/ text = trimEnd(text)
  \/ text = trimEnd(text) \o <<NL>>
  \/ text = trimEnd(text) \o <<CR, NL>>

C13_Original ==
  (/\ TailOk
   /\ tailLast[1].size <= MAX_FILE_BYTES
   /\ Len(FileLines(file)) > tailLast[1].safeMaxLines)
    => \/ tailLast[1].logs
            = joinLines(LastN(FileLines(file), tailLast[1].safeMaxLines))
       \/ tailLast[1].logs
            = joinLines(LastN(splitLines(trimEnd(file)), tailLast[1].safeMaxLines))

\* on exit from the loop one of its three stop conditions holds
TailStopCondition ==
  TailOk =>
    \/ tailLast[1].position = 0
    \/ tailLast[1].bytesCollected >= MAX_FILE_BYTES
    \/ tailLast[1].newlineCount > tailLast[1].safeMaxLines

\* the loop stopped on the newline count, short of the beginning of the file
StoppedByCount ==
  /\ TailOk
  /\ tailLast[1].position > 0
  /\ tailLast[1].newlineCount > tailLast[1].safeMaxLines

\* the lines returned are whole lines of the file: the last ones of its text
TailLinesComplete ==
  StoppedByCount =>
    splitLines(tailLast[1].logs)
      = LastN(splitLines(trimEnd(file)), Len(splitLines(tailLast[1].logs)))

\* what does hold of the loop: it ends, and on a stop condition
TailTerminates ==
  /\ []TailStopCondition
  /\ (tailPc = "reading") ~> (tailPc = "idle")

\* C39 as stated: the backward read terminates, on exit a stop condition
\* holds, and when it stops on the newline count before the beginning of the
\* file every line returned is a complete line of the file.
C39_Original ==
  /\ []TailStopCondition
  /\ (tailPc = "reading") ~> (tailPc = "idle")
  /\ []TailLinesComplete

(***************************************************************************)
(* Loki rules engine: loadLokiRulesConfig, matchesAllowlist,               *)
(* validateLokiLabels                                                      *)
(***************************************************************************)
\* most reads of the rules file explored
MaxRulesReads == 2

\* label names that occur in requests and rules
LabelKeys == {"host", "unit", "job", "app"}

\* label values are strings, modelled as sequences of characters
Va == <<"a">>

Vb == <<"b">>

RuleValues == {Va, Vb}

\* Record<string, string> over the given keys and values
LabelMapsOver(K, V) == UNION {[ks -> V] : ks \in SUBSET K}

Has(labels, k) == k \in DOMAIN labels

\* RegExp.prototype.test: a compiled pattern is the set of values it matches
RegexTest(regex, value) == value \in regex[1]

\* a plausible slip: a value must be in the list and match the pattern
matchesAllowlistBoth(value, list, regex) ==
  /\ list # {} /\ value \in list
  /\ Len(regex) = 1 /\ RegexTest(regex, value)

matchesAllowlist(value, list, regex) ==
  \/ list # {} /\ value \in list
  \/ Len(regex) = 1 /\ RegexTest(regex, value)

\* the parsed rules documents the file may hold (type LokiRulesConfig);
\* job and the patterns are <<>> when absent
RulesDocs ==
  [job : {<<>>, <<Va>>},
   allowedLabels : {LabelKeys, LabelKeys \ {"app"}, {"app", "job"}},
   hosts : {{}, {Va}},
   units : {{}, {Va}},
   hostsRegex : {<<>>, <<{Vb}>>},
   unitsRegex : {<<>>, <<{Vb}>>}]

\* a document whose allowedLabels is empty
DocNoLabels ==
  [job |-> <<>>, allowedLabels |-> {}, hosts |-> {}, units |-> {},
   hostsRegex |-> <<>>, unitsRegex |-> <<>>]

\* a valid document an operator may install later
DocAlt ==
  [job |-> <<>>, allowedLabels |-> {"host"}, hosts |-> {Vb}, units |-> {},
   hostsRegex |-> <<>>, unitsRegex |-> <<>>]

FileMissing == [kind |-> "missing", doc |-> <<>>]

FileGarbage == [kind |-> "garbage", doc |-> <<>>]

FileDoc(d) == [kind |-> "doc", doc |-> <<d>>]

\* loadLokiRulesConfig: status 0 with the rules to use, or the 503 it throws;
\* read tells whether readFileSync/parseYaml ran
loadLokiRulesConfig ==
  IF Len(cachedLokiRules) = 1
    THEN [status |-> 0, cache |-> cachedLokiRules, read |-> FALSE]
  ELSE IF rulesFile.kind = "missing"
    THEN [status |-> 503, cache |-> <<>>, read |-> FALSE]
  ELSE IF rulesFile.kind = "garbage"
    THEN [status |-> 503, cache |-> <<>>, read |-> TRUE]
  ELSE IF rulesFile.doc[1].allowedLabels = {}
    THEN [status |-> 503, cache |-> <<>>, read |-> TRUE]
  ELSE [status |-> 0, cache |-> rulesFile.doc, read |-> TRUE]

Verdict(status, err) == [status |-> status, err |-> err]

\* a plausible slip: host and unit are looked at before job
checkLabelsHostFirst(rules, labels) ==
  IF \E k \in DOMAIN labels : k \notin rules.allowedLabels
    THEN Verdict(403, "label")
  ELSE IF Has(labels, "host")
          /\ ~matchesAllowlist(labels["host"], rules.hosts, rules.hostsRegex)
    THEN Verdict(403, "host")
  ELSE IF Has(labels, "unit")
          /\ ~matchesAllowlist(labels["unit"], rules.units, rules.unitsRegex)
    THEN Verdict(403, "unit")
  ELSE IF Len(rules.job) = 1 /\ (~Has(labels, "job") \/ labels["job"] = <<>>)
    THEN Verdict(403, "job-missing")
  ELSE IF Len(rules.job) = 1 /\ labels["job"] # rules.job[1]
    THEN Verdict(403, "job")
  ELSE Verdict(0, "none")

\* a plausible slip: the key check stops at the set as a whole
checkLabelsWithAllKeysBad(rules, labels) ==
  IF DOMAIN labels # {} /\ \A k \in DOMAIN labels : k \notin rules.allowedLabels
    THEN Verdict(403, "label")
  ELSE IF Len(rules.job) = 1 /\ (~Has(labels, "job") \/ labels["job"] = <<>>)
    THEN Verdict(403, "job-missing")
  ELSE IF Len(rules.job) = 1 /\ labels["job"] # rules.job[1]
    THEN Verdict(403, "job")
  ELSE IF Has(labels, "host")
          /\ ~matchesAllowlist(labels["host"], rules.hosts, rules.hostsRegex)
    THEN Verdict(403, "host")
  ELSE IF Has(labels, "unit")
          /\ ~matchesAllowlist(labels["unit"], rules.units, rules.unitsRegex)
    THEN Verdict(403, "unit")
  ELSE Verdict(0, "none")

\* validateLokiLabels after the rules are loaded (lines 330-356)
checkLabels(rules, labels) ==
  IF \E k \in DOMAIN labels : k \notin rules.allowedLabels
    THEN Verdict(403, "label")
  ELSE IF Len(rules.job) = 1 /\ (~Has(labels, "job") \/ labels["job"] = <<>>)
    THEN Verdict(403, "job-missing")
  ELSE IF Len(rules.job) = 1 /\ labels["job"] # rules.job[1]
    THEN Verdict(403, "job")
  ELSE IF Has(labels, "host")
          /\ ~matchesAllowlist(labels["host"], rules.hosts, rules.hostsRegex)
    THEN Verdict(403, "host")
  ELSE IF Has(labels, "unit")
          /\ ~matchesAllowlist(labels["unit"], rules.units, rules.unitsRegex)
    THEN Verdict(403, "unit")
  ELSE Verdict(0, "none")

\* validateLokiLabels: the error it throws (status 0 when it returns)
validateLokiLabels(labels) ==
  LET ld == loadLokiRulesConfig
  IN IF ld.status # 0 THEN Verdict(503, "config")
     ELSE checkLabels(ld.cache[1], labels)

\* the effect of loadLokiRulesConfig on the cache and on the read count
LoadEffect ==
  LET ld == loadLokiRulesConfig
  IN /\ ld.read => rulesReads < MaxRulesReads
     /\ cachedLokiRules' = ld.cache
     /\ rulesReads' = rulesReads + (IF ld.read THEN 1 ELSE 0)

\* a request reaches validateLokiLabels with these filters
Validate(labels) ==
  /\ LoadEffect
  /\ valLast' = <<[labels |-> labels, verdict |-> validateLokiLabels(labels),
                   cached |-> Len(cachedLokiRules) = 1]>>
  /\ UNCHANGED rulesFile
  /\ UNCHANGED <<envVars, chainVars, ollamaVars, queryVars, safetyVars, debateVars, cmdVars, fileVars, tailVars, lokiVars, batchVars>>

\* the operator replaces, removes or damages the rules file
RulesFileWrite(f) ==
  /\ rulesFile # f
  /\ rulesFile' = f
  /\ UNCHANGED <<cachedLokiRules, rulesReads, valLast>>
  /\ UNCHANGED <<envVars, chainVars, ollamaVars, queryVars, safetyVars, debateVars, cmdVars, fileVars, tailVars, lokiVars, batchVars>>

RulesInit ==
  /\ rulesFile \in {FileMissing, FileGarbage, FileDoc(DocNoLabels)}
                     \cup {FileDoc(d) : d \in RulesDocs}
  /\ cachedLokiRules = <<>>
  /\ rulesReads = 0
  /\ valLast = <<>>

RulesNext ==
  \/ \E labels \in LabelMapsOver(LabelKeys, RuleValues) : Validate(labels)
  \/ \E f \in {FileMissing, FileGarbage, FileDoc(DocNoLabels), FileDoc(DocAlt)} :
       RulesFileWrite(f)

InitRules == EnvInit /\ RulesInit /\ FileInit /\ TailIdle /\ CmdIdle /\ LokiIdle /\ BatchIdle /\ OthersIdle

SpecRules == InitRules /\ [][RulesNext]_vars

(***************************************************************************)
(* Selector and query text. A text is a sequence of characters; a label    *)
(* name or a letter is one token of the sequence (a whole identifier when  *)
(* it stands where a label name is expected; the texts explored never put  *)
(* two of them side by side there).                                        *)
(***************************************************************************)
\* const v = value; then the rest of the code with v
Bind(value, Rest(_)) == Rest(value)

DQ == "\""

BS == "\\"

\* [a-zA-Z0-9_]
WordTokens == LabelKeys \cup {"a", "b"}

\* the character at position i, "" past either end
At(t, i) == IF i \in 1..Len(t) THEN t[i] ELSE ""

RECURSIVE SkipWs(_, _)
\* position of the first character at or after i that \s does not match
SkipWs(t, i) == IF IsSpace(At(t, i)) THEN SkipWs(t, i + 1) ELSE i

RECURSIVE trimStart(_)
trimStart(t) == IF Len(t) > 0 /\ IsSpace(t[1]) THEN trimStart(Tail(t)) ELSE t

\* String.prototype.trim
trim(t) == trimEnd(trimStart(t))

\* the text holds pat as a substring
HasSub(t, pat) ==
  \E i \in 1..(Len(t) - Len(pat) + 1) : SubSeq(t, i, i + Len(pat) - 1) = pat

HasChar(t, c) == \E i \in 1..Len(t) : t[i] = c

\* localeCompare order of the identifiers
TokenOrder == <<"a", "app", "b", "host", "job", "unit">>

\* the keys of K sorted with (a, b) => a.localeCompare(b)
SortedKeys(K) == LET in(k) == k \in K IN SelectSeq(TokenOrder, in)

RECURSIVE ScanQuote(_, _)
\* position of the first double quote at or after i (of [^"\n\r]*"), 0 if none
ScanQuote(t, i) ==
  IF i > Len(t) \/ t[i] \in {NL, CR} THEN 0
  ELSE IF t[i] = DQ THEN i
  ELSE ScanQuote(t, i + 1)

\* one  key\s*=\s*"value"\s*  starting at i (after \s*); next is the
\* position after it
ParsePair(t, i) ==
  Bind(SkipWs(t, i), LAMBDA k :
  Bind(SkipWs(t, k + 1), LAMBDA e :
  Bind(SkipWs(t, e + 1), LAMBDA q :
  Bind(ScanQuote(t, q + 1), LAMBDA c :
    IF At(t, k) \in WordTokens /\ At(t, e) = "=" /\ At(t, q) = DQ /\ c > 0
      THEN [ok |-> TRUE, key |-> t[k], value |-> SubSeq(t, q + 1, c - 1),
            next |-> SkipWs(t, c + 1)]
      ELSE [ok |-> FALSE, key |-> "", value |-> <<>>, next |-> 0]))))

RECURSIVE ParsePairs(_, _, _)
\* pair (, pair)* } up to the end of the text
ParsePairs(t, i, acc) ==
  Bind(ParsePair(t, i), LAMBDA p :
    IF ~p.ok THEN [ok |-> FALSE, pairs |-> <<>>]
    ELSE IF At(t, p.next) = ","
      THEN ParsePairs(t, p.next + 1, Append(acc, <<p.key, p.value>>))
    ELSE IF At(t, p.next) = "}" /\ p.next = Len(t)
      THEN [ok |-> TRUE, pairs |-> Append(acc, <<p.key, p.value>>)]
    ELSE [ok |-> FALSE, pairs |-> <<>>])

\* new Map filled with labels.set(key, value) in order: the last value wins
LabelsOf(pairs) ==
  [k \in {pairs[i][1] : i \in 1..Len(pairs)} |->
     LET last == CHOOSE i \in 1..Len(pairs) :
                   /\ pairs[i][1] = k
                   /\ \A j \in (i + 1)..Len(pairs) : pairs[j][1] # k
     IN pairs[last][2]]

\* parseSimpleSelector: the label map, or the 400 it throws
parseSimpleSelector(selector) ==
  Bind(trim(selector), LAMBDA t :
    IF HasChar(t, NL) \/ HasChar(t, CR) THEN [status |-> 400, labels |-> <<>>]
    ELSE IF HasChar(t, "|") \/ HasSub(t, <<"!", "=">>)
            \/ HasSub(t, <<"=", "~">>) \/ HasSub(t, <<"!", "~">>)
      THEN [status |-> 400, labels |-> <<>>]
    ELSE IF At(t, 1) # "{" THEN [status |-> 400, labels |-> <<>>]
    ELSE IF At(t, SkipWs(t, 2)) = "}" /\ SkipWs(t, 2) = Len(t)
      THEN [status |-> 0, labels |-> <<>>]
    ELSE Bind(ParsePairs(t, 2, <<>>), LAMBDA r :
           IF r.ok THEN [status |-> 0, labels |-> LabelsOf(r.pairs)]
           ELSE [status |-> 400, labels |-> <<>>]))

RECURSIVE JoinWith(_, _)
\* parts.join(sep)
JoinWith(parts, sep) ==
  IF Len(parts) = 0 THEN <<>>
  ELSE IF Len(parts) = 1 THEN parts[1]
  ELSE parts[1] \o sep \o JoinWith(Tail(parts), sep)

RECURSIVE escapeChars(_)
\* input.replace(/\\/g, '\\\\').replace(/"/g, '\\"')
escapeChars(v) ==
  IF Len(v) = 0 THEN <<>>
  ELSE (IF v[1] = BS THEN <<BS, BS>>
        ELSE IF v[1] = DQ THEN <<BS, DQ>>
        ELSE <<v[1]>>) \o escapeChars(Tail(v))

escapeLogQLLabelValue(input) == escapeChars(input)

escapeLogQLStringLiteral(input) == escapeChars(input)

\* {k1="v1",k2="v2"} with the keys sorted; esc tells whether values are escaped
RenderSelector(labels, esc) ==
  LET keys == SortedKeys(DOMAIN labels)
      part(i) == <<keys[i], "=", DQ>>
                   \o (IF esc THEN escapeLogQLLabelValue(labels[keys[i]])
                       ELSE labels[keys[i]])
                   \o <<DQ>>
  IN <<"{">> \o JoinWith([i \in 1..Len(keys) |-> part(i)], <<",">>) \o <<"}">>

\* normalizeSelector: the normalized text, or the 400 of parseSimpleSelector
normalizeSelector(selector) ==
  Bind(parseSimpleSelector(selector), LAMBDA p :
    IF p.status # 0 THEN [status |-> p.status, text |-> <<>>]
    ELSE [status |-> 0, text |-> RenderSelector(p.labels, FALSE)])

(***************************************************************************)
(* Loki collection: buildEffectiveLokiQuery, enforceScopeGuard,            *)
(* ensureAllowlistedSelectorFromQuery, resolveLokiTimeRange,               *)
(* collectLokiBatchLogs, collectLokiLogs                                   *)
(***************************************************************************)
\* default of the environment setting
LOKI_REQUIRE_SCOPE_LABELS == TRUE

LOKI_MAX_WINDOW_MINUTES == 60

LOKI_DEFAULT_WINDOW_MINUTES == 15

\* the clock (new Date()) when a request is served, in minutes
NowMin == 100

isLokiEnabled == lokiEnabled

\* what a collector call comes to: status 0 when it returns, else the status
\* of the error it throws; query is the text built for or sent to the
\* aggregator; sent tells whether fetch was called with it
Collected(status, query, sent) ==
  [status |-> status, query |-> query, sent |-> sent]

\* validateAllowedLokiSelector: the normalized selector it returns, or the
\* status of the error it throws
validateAllowedLokiSelector(selector) ==
  IF ~isLokiEnabled THEN [status |-> 503, text |-> <<>>]
  ELSE Bind(normalizeSelector(selector), LAMBDA normalized :
         IF normalized.status # 0 THEN normalized
         ELSE Bind(parseSimpleSelector(normalized.text), LAMBDA candidate :
                IF candidate.status # 0
                  THEN [status |-> candidate.status, text |-> <<>>]
                ELSE Bind(validateLokiLabels(candidate.labels), LAMBDA v :
                       IF v.status # 0 THEN [status |-> v.status, text |-> <<>>]
                       ELSE normalized)))

\* query.indexOf(c), 0 when absent
IndexOf(t, c) ==
  IF HasChar(t, c) THEN CHOOSE i \in 1..Len(t) :
                          t[i] = c /\ \A j \in 1..(i - 1) : t[j] # c
  ELSE 0

RECURSIVE CloseOf(_, _, _)
\* position of the brace that closes the block open at depth before i, 0 if none
CloseOf(t, i, depth) ==
  IF i > Len(t) THEN 0
  ELSE IF t[i] = "{" THEN CloseOf(t, i + 1, depth + 1)
  ELSE IF t[i] = "}" THEN (IF depth = 1 THEN i ELSE CloseOf(t, i + 1, depth - 1))
  ELSE CloseOf(t, i + 1, depth)

\* extractSelectorExpression: the first balanced {...} block, or 400
extractSelectorExpression(query) ==
  Bind(IndexOf(query, "{"), LAMBDA start :
    IF start = 0 THEN [status |-> 400, text |-> <<>>]
    ELSE Bind(CloseOf(query, start, 0), LAMBDA close :
           IF close = 0 THEN [status |-> 400, text |-> <<>>]
           ELSE [status |-> 0, text |-> SubSeq(query, start, close)]))

\* ensureAllowlistedSelectorFromQuery: status of the error thrown, 0 if none
ensureAllowlistedSelectorFromQuery(query) ==
  Bind(extractSelectorExpression(query), LAMBDA selector :
    IF selector.status # 0 THEN selector.status
    ELSE validateAllowedLokiSelector(selector.text).status)

\* /\b(?:host|unit)\s*(?:=|!=|=~|!~)\s*"/.test(query)
hasScopeLabelsInRawQuery(query) ==
  \E i \in 1..Len(query) :
    /\ query[i] \in {"host", "unit"}
    /\ At(query, i - 1) \notin WordTokens
    /\ Bind(SkipWs(query, i + 1), LAMBDA o :
         \/ At(query, o) = "=" /\ At(query, SkipWs(query, o + 1)) = DQ
         \/ /\ <<At(query, o), At(query, o + 1)>>
                 \in {<<"!", "=">>, <<"=", "~">>, <<"!", "~">>}
            /\ At(query, SkipWs(query, o + 2)) = DQ)

hasScopeLabelsInFilters(filters) == Has(filters, "host") \/ Has(filters, "unit")

\* a request field that may be absent: <<>> or <<value>>
Given(field) == Len(field) = 1

\* typeof input.query === 'string' && input.query.trim().length > 0
HasQuery(input) == Given(input.query) /\ Len(trim(input.query[1])) > 0

\* buildEffectiveLokiQuery: the query text, or the status of the error thrown
buildEffectiveLokiQuery(input) ==
  IF HasQuery(input) THEN [status |-> 403, text |-> <<>>]
  ELSE IF ~Given(input.filters) THEN [status |-> 400, text |-> <<>>]
  ELSE Bind(validateLokiLabels(input.filters[1]), LAMBDA v :
         IF v.status # 0 THEN [status |-> v.status, text |-> <<>>]
         ELSE [status |-> 0,
               text |-> RenderSelector(input.filters[1], TRUE)
                          \o (IF Given(input.contains)
                                THEN <<" ", "|", "=", " ", DQ>>
                                       \o escapeLogQLStringLiteral(input.contains[1])
                                       \o <<DQ>>
                              ELSE <<>>)])

\* enforceScopeGuard: status of the error thrown, 0 if none
enforceScopeGuard(input, effectiveQuery) ==
  IF ~LOKI_REQUIRE_SCOPE_LABELS \/ input.allowUnscoped THEN 0
  ELSE IF \/ Given(input.query) /\ hasScopeLabelsInRawQuery(effectiveQuery)
          \/ Given(input.filters) /\ hasScopeLabelsInFilters(input.filters[1])
    THEN 0
  ELSE 400

\* resolveLokiTimeRange on valid timestamps: status of the error thrown
resolveLokiTimeRange(start, end) ==
  LET startDate == IF Given(start) THEN start[1]
                   ELSE NowMin - Max(1, LOKI_DEFAULT_WINDOW_MINUTES)
      endDate == IF Given(end) THEN end[1] ELSE NowMin
  IN IF startDate >= endDate THEN 400
     ELSE IF endDate - startDate > Max(1, LOKI_MAX_WINDOW_MINUTES) THEN 400
     ELSE 0

\* how the aggregator of the explored environment answers a query_range
\* call: it is unreachable for the streams of host b, too slow for the
\* streams of unit b, and returns streams otherwise
Aggregator(query) ==
  IF HasSub(query, <<"host", "=", DQ, "b", DQ>>) THEN "refused"
  ELSE IF HasSub(query, <<"unit", "=", DQ, "b", DQ>>) THEN "timeout"
  ELSE "streams"

\* the status fetch and the payload checks come to (in queryLokiRange and in
\* collectLokiLogs alike)
queryLokiRange(query) ==
  IF ~isLokiEnabled THEN 503
  ELSE Bind(Aggregator(query), LAMBDA answer :
         IF answer = "timeout" THEN 504
         ELSE IF answer = "refused" THEN 502
         ELSE 0)

\* collectLokiBatchLogs
collectLokiBatchLogs(input) ==
  Bind(buildEffectiveLokiQuery(input), LAMBDA query :
    IF query.status # 0 THEN Collected(query.status, <<>>, FALSE)
    ELSE Bind(enforceScopeGuard(input, query.text), LAMBDA guard :
    IF guard # 0 THEN Collected(guard, query.text, FALSE)
    ELSE Bind(ensureAllowlistedSelectorFromQuery(query.text), LAMBDA listed :
    IF listed # 0 THEN Collected(listed, query.text, FALSE)
    ELSE Bind(resolveLokiTimeRange(input.start, input.end), LAMBDA range :
    IF range # 0 THEN Collected(range, query.text, FALSE)
    ELSE IF ~isLokiEnabled THEN Collected(503, query.text, FALSE)
    ELSE Collected(queryLokiRange(query.text), query.text, TRUE)))))

\* collectLokiLogs: the selector is validated and sent as the query
collectLokiLogs(selector) ==
  IF ~isLokiEnabled THEN Collected(503, <<>>, FALSE)
  ELSE Bind(validateAllowedLokiSelector(selector), LAMBDA sel :
         IF sel.status # 0 THEN Collected(sel.status, <<>>, FALSE)
         ELSE Collected(queryLokiRange(sel.text), sel.text, TRUE))


(***************************************************************************)
(* POST /analyze/logs/batch: the handler, runConcurrent and its worker     *)
(***************************************************************************)
\* most targets of a journald batch explored
MaxItems == 5

\* most targets of a file batch explored
MaxFileTargets == 3

\* most selectors of a Loki batch explored
MaxSelectors == 2

BATCH_CONCURRENCY_MIN == 1

\* default of MAX_CONCURRENCY
BATCH_CONCURRENCY_MAX == 5

\* the sequences over S of length at most n
SeqsUpTo(S, n) == UNION {[1..k -> S] : k \in 0..n}

\* an array as JavaScript indexes it, from 0
ZeroBased(seq) == [i \in 0..(Len(seq) - 1) |-> seq[i + 1]]

\* journald units of the explored environment; the second has a character
\* outside [a-zA-Z0-9._:@/-], the third makes journalctl outlast the timeout
JournalTargets == {"sshd", "bad unit", "slow"}

\* the targets the test of line 56 fails on
UnsupportedTargets == {"bad unit", "my log"}

sanitizeTarget(target) == IF target \in UnsupportedTargets THEN 400 ELSE 0

\* runAllowedCommand('journalctl', ...)
runAllowedCommand(target) == IF target = "slow" THEN 504 ELSE 0

collectJournalctlLogs(target) ==
  IF sanitizeTarget(target) # 0 THEN sanitizeTarget(target)
  ELSE runAllowedCommand(target)

\* collectFileLogs: 403 off the allowlist; access() rejects with an error
\* that has no status, which toHttpError reports as 500
collectFileLogs(target) ==
  IF target \notin parseAllowedFilePaths THEN 403
  ELSE IF target \notin Readable THEN 500
  ELSE 0

\* getAllowedLogFileTargets: the allowlist sorted with localeCompare
getAllowedLogFileTargets == <<"a.log", "gone.log">>

\* selector texts callers send
SelHostA == <<"{", "host", "=", DQ, "a", DQ, "}">>

SelHostB == <<"{", "host", "=", DQ, "b", DQ, "}">>

SelJobA == <<"{", "job", "=", DQ, "a", DQ, "}">>

SelAppA == <<"{", "app", "=", DQ, "a", DQ, "}">>

SelRegex == <<"{", "host", "=", "~", DQ, "a", DQ, "}">>

SelectorTexts == {SelHostA, SelHostB, SelJobA, SelAppA, SelRegex}

\* targets[] entries of a Loki batch: loki:{...}, and one without the prefix
LokiTargetTexts == {<<"loki:">> \o t : t \in SelectorTexts} \cup {SelHostA}

\* extractSelectorFromLokiTarget
extractSelectorFromLokiTarget(target) ==
  IF At(target, 1) # "loki:" THEN [status |-> 400, text |-> <<>>]
  ELSE IF Len(trim(Tail(target))) = 0 THEN [status |-> 400, text |-> <<>>]
  ELSE [status |-> 0, text |-> trim(Tail(target))]

\* a filter value that spells a label matcher
VHostEq == <<"host", "=">>

\* the rules file of the explored deployment: no job pinned, two hosts
BatchRules ==
  [job |-> <<>>, allowedLabels |-> {"host", "unit", "job"}, hosts |-> {Va, Vb},
   units |-> {Va, Vb}, hostsRegex |-> <<>>, unitsRegex |-> <<>>]

\* request bodies as AnalyzeLogsBatchRequestSchema types them, defaults
\* applied; an absent optional field is <<>>, a present one <<value>>
Body(source, targets, selectors, concurrency) ==
  [source |-> source, targets |-> targets, selectors |-> selectors,
   query |-> <<>>, filters |-> <<>>, contains |-> <<>>, start |-> <<>>,
   end |-> <<>>, allowUnscoped |-> FALSE, concurrency |-> concurrency]

ConcurrencyValues == (BATCH_CONCURRENCY_MIN - 1)..(BATCH_CONCURRENCY_MAX + 1)

FileBodies ==
  {Body("file", t, <<>>, c) :
     t \in SeqsUpTo(FileTargets, MaxFileTargets), c \in ConcurrencyValues}

JournalBodies ==
  {Body("journald", t, <<>>, c) :
     t \in SeqsUpTo(JournalTargets, MaxItems), c \in ConcurrencyValues}

LokiSelectorBodies ==
  {Body("loki", <<>>, sel, c) :
     sel \in SeqsUpTo(SelectorTexts, MaxSelectors), c \in ConcurrencyValues}
  \cup {Body("loki", t, <<>>, c) :
     t \in SeqsUpTo(LokiTargetTexts, MaxSelectors), c \in ConcurrencyValues}

TimeChoices == {<<>>, <<0>>, <<50>>}

LokiFilterBodies ==
  [source : {"loki"}, targets : {<<>>}, selectors : {<<>>, <<SelJobA>>},
   query : {<<>>, <<<<" ">>>>, <<SelHostA>>},
   filters : {<<>>} \cup {<<m>> : m \in LabelMapsOver({"host", "job", "app"},
                                                       {Va, VHostEq})},
   contains : {<<>>, <<Va>>},
   start : TimeChoices, end : TimeChoices \cup {<<NowMin>>},
   allowUnscoped : BOOLEAN, concurrency : {2}]

\* AnalyzeLogsBatchRequestSchema.safeParse(body).success, for the bodies above
SchemaAccepts(b) ==
  /\ b.concurrency \in BATCH_CONCURRENCY_MIN..BATCH_CONCURRENCY_MAX
  /\ Given(b.filters) => DOMAIN b.filters[1] # {}
  /\ ~(b.source = "loki" /\ HasQuery(b) /\ Given(b.filters))

\* one entry of results[]; thrown marks an error the worker lets escape
Entry(target, status, thrown) ==
  [target |-> target, ok |-> status = 0, status |-> status, thrown |-> thrown]

\* the collector the worker awaits, by source: the status of the error it
\* throws, 0 when logs come back (and their analysis, where one is asked)
CollectStatus(source, target) ==
  IF source = "loki" THEN collectLokiLogs(target).status
  ELSE IF source = "journald" THEN collectJournalctlLogs(target)
  ELSE collectFileLogs(target)

\* a plausible slip: the worker has no catch, the error escapes it
WorkerRethrows(source, target) ==
  Bind(CollectStatus(source, target), LAMBDA st : Entry(target, st, st # 0))

\* the worker passed to runConcurrent: try { collect, analyze } catch -> Err
Worker(source, target) == Entry(target, CollectStatus(source, target), FALSE)

\* a plausible slip: the slot is read off the shared counter after the await
ResultSlotFromIndex(current, idx) == idx - 1

\* results[current] = await worker(items[current])
ResultSlot(current, idx) == current

\* results.filter((r) => r.ok).length
CountOk(res) == Cardinality({i \in DOMAIN res : res[i].ok})

\* res.status(200).json(bodyOut) and the error responses
Reply(status, requested, res) ==
  <<[status |-> status, requestedTargets |-> requested,
     analyzedTargets |-> Cardinality(DOMAIN res), ok |-> CountOk(res),
     failed |-> Cardinality(DOMAIN res) - CountOk(res), results |-> res]>>

\* the handler answers without entering runConcurrent
Answer(reply) ==
  /\ batchPc' = "done"
  /\ response' = reply
  /\ UNCHANGED <<items, results, index, runners>>

\* the query a worker call hands to fetch, if it gets that far
SentBy(source, target) ==
  IF source # "loki" THEN {}
  ELSE Bind(collectLokiLogs(target), LAMBDA c :
         IF c.sent THEN {c.query} ELSE {})

\* candidateTargets.length
RequestedTargets(b) ==
  IF b.source = "loki"
    THEN (IF Len(b.selectors) > 0 THEN Len(b.selectors) ELSE Len(b.targets))
  ELSE IF Len(b.targets) > 0 THEN Len(b.targets)
  ELSE IF b.source = "file" THEN Len(getAllowedLogFileTargets)
  ELSE 1

\* a plausible slip: one runner for each item
RunnerPerItem(concurrency, length) == length

\* Array.from({ length: Math.min(concurrency, items.length) }, ...)
RunnerCount(concurrency, length) == Min(concurrency, length)

\* a plausible slip: the runner goes on with the index it held
ClaimAgain(idx) == idx - 1

\* const current = index, in the turn of the event loop that follows the
\* await
ClaimIndex(idx) == idx

\* runConcurrent up to its first await: min(concurrency, length) runners each
\* claim an index and call the worker, which runs up to its fetch or spawn
StartRunners(source, targets, concurrency) ==
  LET n == Len(targets)
      k == RunnerCount(concurrency, n)
  IN /\ items' = ZeroBased(targets)
     /\ lokiSent' = lokiSent \cup UNION {SentBy(source, targets[i]) : i \in 1..k}
     /\ results' = [i \in 0..(n - 1) |-> <<>>]
     /\ runners' = [r \in 1..k |-> [pc |-> "await", current |-> r - 1]]
     /\ index' = k
     /\ batchPc' = "running"
     /\ response' = <<>>

\* the Loki branch with filters or query: one collectLokiBatchLogs call,
\* its error caught into the single entry
LokiSingle(b) ==
  LET c == collectLokiBatchLogs(b)
      target == IF c.query # <<>> THEN c.query
                ELSE IF HasQuery(b) THEN trim(b.query[1]) ELSE <<"loki">>
  IN /\ lokiLast' = <<c>>
     /\ lokiSent' = IF c.sent THEN lokiSent \cup {c.query} ELSE lokiSent
     /\ IF ~HasQuery(b) /\ Given(b.filters)
          THEN LoadEffect
          ELSE UNCHANGED <<cachedLokiRules, rulesReads>>
     /\ Answer(Reply(200, 1, ZeroBased(<<Entry(target, c.status, FALSE)>>)))

\* selectorInputs of the Loki branch without filters or query
SelectorInputs(b) ==
  IF Len(b.selectors) > 0 THEN [i \in 1..Len(b.selectors) |->
                                  [status |-> 0, text |-> b.selectors[i]]]
  ELSE [i \in 1..Len(b.targets) |-> extractSelectorFromLokiTarget(b.targets[i])]

\* the status of the first element that throws, 0 if none does
FirstError(outcomes) ==
  IF \E i \in 1..Len(outcomes) : outcomes[i].status # 0
    THEN outcomes[CHOOSE i \in 1..Len(outcomes) :
                    /\ outcomes[i].status # 0
                    /\ \A j \in 1..(i - 1) : outcomes[j].status = 0].status
  ELSE 0

\* the Loki branch with selectors: every selector is validated before
\* runConcurrent; an error there reaches the handler's outer catch
LokiSelectors(b) ==
  LET inputs == SelectorInputs(b)
      valid == [i \in 1..Len(inputs) |->
                  validateAllowedLokiSelector(inputs[i].text)]
  IN /\ UNCHANGED lokiLast
     /\ IF FirstError(inputs) # 0
          THEN /\ Answer(Reply(FirstError(inputs), 0, <<>>))
               /\ UNCHANGED <<cachedLokiRules, rulesReads, lokiSent>>
        ELSE IF Len(inputs) = 0
          THEN /\ Answer(Reply(400, 0, <<>>))
               /\ UNCHANGED <<cachedLokiRules, rulesReads, lokiSent>>
        ELSE /\ IF isLokiEnabled /\ normalizeSelector(inputs[1].text).status = 0
                  THEN LoadEffect
                  ELSE UNCHANGED <<cachedLokiRules, rulesReads>>
             /\ IF FirstError(valid) # 0
                  THEN /\ Answer(Reply(FirstError(valid), 0, <<>>))
                       /\ UNCHANGED lokiSent
                  ELSE StartRunners("loki",
                                    [i \in 1..Len(valid) |-> valid[i].text],
                                    b.concurrency)

\* the file and journald branches
PlainTargets(b) ==
  LET allowed == getAllowedLogFileTargets
      candidate == IF Len(b.targets) > 0 THEN b.targets
                   ELSE IF b.source = "file" THEN allowed ELSE <<"all">>
      inAllowed(t) == \E i \in 1..Len(allowed) : allowed[i] = t
      targets == IF b.source = "file" THEN SelectSeq(candidate, inAllowed)
                 ELSE candidate
  IN /\ UNCHANGED <<lokiLast, cachedLokiRules, rulesReads>>
     /\ IF Len(targets) = 0
          THEN Answer(Reply(400, 0, <<>>)) /\ UNCHANGED lokiSent
          ELSE StartRunners(b.source, targets, b.concurrency)

\* the handler from the arrival of a request to its first await or its reply
BatchRequest(b) ==
  /\ batchPc = "idle"
  /\ body' = <<b>>
  /\ IF ~SchemaAccepts(b)
       THEN /\ Answer(Reply(400, 0, <<>>))
            /\ UNCHANGED <<lokiSent, lokiLast, cachedLokiRules, rulesReads>>
     ELSE IF b.source = "loki" /\ (HasQuery(b) \/ Given(b.filters))
       THEN LokiSingle(b)
     ELSE IF b.source = "loki" THEN LokiSelectors(b)
     ELSE PlainTargets(b)
  /\ UNCHANGED <<rulesFile, valLast, lokiEnabled>>
  /\ UNCHANGED <<envVars, chainVars, ollamaVars, queryVars, safetyVars, debateVars, cmdVars, fileVars, tailVars>>

\* a worker call settles: the runner stores its result and claims the next
\* index, or leaves the loop when none is left
WorkerDone(r) ==
  /\ batchPc = "running"
  /\ r \in DOMAIN runners
  /\ runners[r].pc = "await"
  /\ LET current == runners[r].current
         e == Worker(body[1].source, items[current])
         slot == ResultSlot(current, index)
     IN /\ IF e.thrown
             THEN \* the runner rejects, Promise.all rejects, the outer catch
                  \* of the handler answers
                  /\ runners' = [runners EXCEPT ![r].pc = "done"]
                  /\ response' = IF response = <<>>
                                   THEN Reply(e.status, 0, <<>>) ELSE response
                  /\ UNCHANGED <<results, index, lokiSent>>
           ELSE /\ results' = [i \in DOMAIN results |->
                                 IF i = slot THEN <<e>> ELSE results[i]]
                /\ index' = index + 1
                /\ runners' = [runners EXCEPT ![r] =
                                 IF index >= Cardinality(DOMAIN items)
                                   THEN [pc |-> "done", current |-> index]
                                   ELSE [pc |-> "await", current |-> ClaimIndex(index)]]
                /\ lokiSent' = IF index >= Cardinality(DOMAIN items) THEN lokiSent
                                ELSE lokiSent \cup SentBy(body[1].source, items[index])
                /\ UNCHANGED response
  /\ UNCHANGED <<batchPc, body, items>>
  /\ UNCHANGED <<rulesVars, lokiEnabled, lokiLast>>
  /\ UNCHANGED <<envVars, chainVars, ollamaVars, queryVars, safetyVars, debateVars, cmdVars, fileVars, tailVars>>

\* Promise.all(runners) resolves: the tally and the 200 reply
BatchRespond ==
  /\ batchPc = "running"
  /\ \A r \in DOMAIN runners : runners[r].pc = "done"
  /\ batchPc' = "done"
  /\ response' = IF response # <<>> THEN response
                 ELSE Reply(200, RequestedTargets(body[1]),
                            [i \in DOMAIN results |-> results[i][1]])
  /\ UNCHANGED <<body, items, results, index, runners>>
  /\ UNCHANGED <<rulesVars, lokiVars>>
  /\ UNCHANGED <<envVars, chainVars, ollamaVars, queryVars, safetyVars, debateVars, cmdVars, fileVars, tailVars>>

BatchInit ==
  /\ rulesFile = FileDoc(BatchRules)
  /\ cachedLokiRules = <<>>
  /\ rulesReads = 0
  /\ valLast = <<>>

BatchNext ==
  \/ batchPc = "idle" /\ \E b \in FileBodies : BatchRequest(b)
  \/ batchPc = "idle" /\ \E b \in JournalBodies : BatchRequest(b)
  \/ batchPc = "idle" /\ \E b \in LokiSelectorBodies : BatchRequest(b)
  \/ batchPc = "idle" /\ \E b \in LokiFilterBodies : BatchRequest(b)
  \/ \E r \in 1..BATCH_CONCURRENCY_MAX : WorkerDone(r)
  \/ BatchRespond

InitBatch == EnvInit /\ BatchInit /\ BatchIdle /\ LokiIdle /\ FileInit /\ TailIdle /\ CmdIdle /\ OthersIdle

SpecBatch == InitBatch /\ [][BatchNext]_vars

\* runConcurrent on its own: any list of items, the empty one too, with the
\* worker of the journald branch and a concurrency of the configured range
RunAllCall(b) ==
  /\ batchPc = "idle"
  /\ body' = <<b>>
  /\ StartRunners(b.source, b.targets, b.concurrency)
  /\ UNCHANGED <<rulesVars, lokiEnabled, lokiLast>>
  /\ UNCHANGED <<envVars, chainVars, ollamaVars, queryVars, safetyVars, debateVars, cmdVars, fileVars, tailVars>>

RunAllNext ==
  \/ batchPc = "idle" /\ \E b \in {j \in JournalBodies : SchemaAccepts(j)} : RunAllCall(b)
  \/ \E r \in 1..BATCH_CONCURRENCY_MAX : WorkerDone(r)
  \/ BatchRespond

SpecRunAll == InitBatch /\ [][RunAllNext]_vars

(***************************************************************************)
(* The filters path on its own: one request with a label map whose values  *)
(* hold the characters LogQL gives a meaning to, in a deployment whose     *)
(* rules constrain host by a list or by a pattern and leave app free       *)
(***************************************************************************)
VBackslash == <<"a", BS, "b">>

VQuote == <<"a", DQ, "b">>

VPipe == <<"a", "|", "b">>

VOpen == <<"a", "{">>

VClose == <<"a", "}">>

SpecialValues == {Va, VBackslash, VQuote, VPipe, VOpen, VClose}

\* hosts listed by name
RulesHostList ==
  [job |-> <<>>, allowedLabels |-> {"host", "app"}, hosts |-> {Va, VBackslash},
   units |-> {}, hostsRegex |-> <<>>, unitsRegex |-> <<>>]

\* hostsPattern: '.+'
RulesHostPattern ==
  [job |-> <<>>, allowedLabels |-> {"host", "app"}, hosts |-> {},
   units |-> {}, hostsRegex |-> <<SpecialValues \cup {escapeChars(v) : v \in SpecialValues}>>,
   unitsRegex |-> <<>>]

SpecialFilterBodies ==
  [source : {"loki"}, targets : {<<>>}, selectors : {<<>>}, query : {<<>>},
   filters : {<<m>> : m \in LabelMapsOver({"host", "app"}, SpecialValues)},
   contains : {<<>>, <<VPipe>>},
   start : {<<>>}, end : {<<>>},
   allowUnscoped : BOOLEAN, concurrency : {2}]

FiltersInit ==
  /\ rulesFile \in {FileDoc(RulesHostList), FileDoc(RulesHostPattern)}
  /\ cachedLokiRules = <<>>
  /\ rulesReads = 0
  /\ valLast = <<>>

FiltersNext == batchPc = "idle" /\ \E b \in SpecialFilterBodies : BatchRequest(b)

InitFilters == EnvInit /\ FiltersInit /\ BatchIdle /\ LokiIdle /\ FileInit /\ TailIdle /\ CmdIdle /\ OthersIdle

SpecFilters == InitFilters /\ [][FiltersNext]_vars

(***************************************************************************)
(* POST /analyze/logs for the journal and container sources:               *)
(* AnalyzeLogsRequestSchema, collectLogs, collectJournalctlLogs,           *)
(* collectDockerLogs, clampHours, runAllowedCommand                        *)
(* Hours are counted in half hours, so that 0.5 and 1.5 can be sent.       *)
(***************************************************************************)
\* largest hours a client sends, in half hours
MaxHalfHours == 6
\* MAX_HOURS of a deployment that sets it below the schema's limit
LowMaxHours == 1
\* MAX_COMMAND_BYTES (env, default 2_000_000), scaled down
MAX_COMMAND_BYTES == 2
\* largest chunk the child writes to stdout at once
MaxChunk == 2
\* most characters the child writes to stderr
MaxStderr == 2
\* ANALYZE_MAX_LINES_REQUEST
ANALYZE_MAX_LINES_REQUEST == 5000

CommandSources == {"journalctl", "journald", "docker"}

\* units and containers clients name; the last has a character outside
\* [a-zA-Z0-9._:@/-]
CommandTargets == {"sshd", "all", "bad unit"}

\* the characters of stderr
StderrChars == {"e", " "}

\* the exit codes of the child
ExitCodes == {0, 1}

\* AnalyzeLogsRequestSchema.safeParse(body).success, for hours and maxLines
AnalyzeLogsRequestSchema(halfHours, maxLines) ==
  /\ halfHours > 0
  /\ halfHours <= 2 * ANALYZE_MAX_HOURS
  /\ maxLines > 0
  /\ maxLines <= ANALYZE_MAX_LINES_REQUEST

\* hours <= 0 of line 63 (Number.isFinite holds for what the schema passes)
HoursRefused(halfHours) == halfHours <= 0

\* a plausible slip: the cap is left out
clampHoursUncapped(halfHours) == halfHours \div 2

\* clampHours, line 66: Math.min(Math.floor(hours), MAX_HOURS), in hours
clampHours(halfHours) == Min(halfHours \div 2, MAX_HOURS)

\* a plausible slip: the size is looked at one byte late
ExceedsCommandBytesLate(stdout) == stdout > MAX_COMMAND_BYTES + 1

\* the test of line 102
ExceedsCommandBytes(stdout) == stdout > MAX_COMMAND_BYTES

\* a plausible slip: the timer callback does not look at settled
TimeoutSettlesAlways(c) == TRUE

\* a plausible slip: the timer gives up while output is still arriving
TimeoutSettlesWhenQuiet(c) == ~c.settled /\ c.stdout = 0

\* the timer callback goes on when the call is not settled (lines 88-90)
TimeoutSettles(c) == ~c.settled

\* the text after "failed: " in the error of line 133; NoStderr stands for
\* `exit code ${String(code)}`
NoStderr == <<"exit", "code">>

FailureDetail(stderr) == IF trim(stderr) # <<>> THEN trim(stderr) ELSE NoStderr

\* the HTTP response: status, for 200 the bytes of stdout in the body, for
\* 502 the detail of the message; killed tells that child.kill('SIGKILL')
\* was called when the call was settled
CmdResponse(c, status, by, killed) ==
  [status |-> status, by |-> by, killed |-> killed, target |-> c.target,
   halfHours |-> c.halfHours, maxLines |-> c.maxLines,
   command |-> c.command, sinceHours |-> c.sinceHours, lines |-> c.lines,
   stdout |-> c.stdout, stderr |-> c.stderr,
   detail |-> IF status = 502 THEN FailureDetail(c.stderr) ELSE <<>>]

\* the handler of POST /analyze/logs up to the spawn: schema, collectLogs,
\* collectJournalctlLogs / collectDockerLogs, the head of runAllowedCommand;
\* every request has a closure of its own, the one that spawns a command is
\* followed to the end of its child
AnalyzeLogs(source, target, halfHours, maxLines) ==
  /\ cmdPc = "idle"
  /\ UNCHANGED <<envVars, chainVars, ollamaVars, queryVars, safetyVars, debateVars, fileVars, tailVars, rulesVars, lokiVars, batchVars>>
  /\ LET req == [NoCmd EXCEPT !.target = target, !.halfHours = halfHours,
                               !.maxLines = maxLines]
         call == [command |-> IF source = "docker" THEN "docker" ELSE "journalctl",
                  target |-> target,
                  halfHours |-> halfHours, maxLines |-> maxLines,
                  sinceHours |-> clampHours(halfHours),
                  lines |-> clampMaxLines(maxLines),
                  unit |-> IF source # "docker" /\ target = "all" THEN "" ELSE target,
                  settled |-> FALSE, stdout |-> 0, stderr |-> <<>>,
                  timeout |-> "armed", child |-> "alive"]
     IN IF ~AnalyzeLogsRequestSchema(halfHours, maxLines)
          THEN /\ cmdLast' = <<CmdResponse(req, 400, "schema", FALSE)>>
               /\ cmdPc' = "idle"
               /\ cmd' = NoCmd
        ELSE IF sanitizeTarget(target) # 0
          THEN /\ cmdLast' = <<CmdResponse(req, sanitizeTarget(target), "target", FALSE)>>
               /\ cmdPc' = "idle"
               /\ cmd' = NoCmd
        ELSE IF HoursRefused(halfHours)
          THEN /\ cmdLast' = <<CmdResponse(req, 400, "hours", FALSE)>>
               /\ cmdPc' = "idle"
               /\ cmd' = NoCmd
        ELSE /\ cmdPc' = "running"
             /\ cmd' = call
             /\ cmdLast' = <<>>

\* child.stdout.on('data'), lines 96-107: a chunk of n bytes arrives
StdoutData(n) ==
  /\ cmdPc \in {"running", "settled"}
  /\ cmd.child \in {"alive", "killed"}
  /\ UNCHANGED <<envVars, chainVars, ollamaVars, queryVars, safetyVars, debateVars, fileVars, tailVars, rulesVars, lokiVars, batchVars>>
  /\ IF cmd.settled
       THEN UNCHANGED cmdVars
     ELSE IF ExceedsCommandBytes(cmd.stdout + n)
       THEN /\ cmd' = [cmd EXCEPT !.stdout = @ + n, !.settled = TRUE,
                                  !.child = "killed"]
            /\ cmdLast' = <<CmdResponse(cmd', 413, "overflow", TRUE)>>
            /\ cmdPc' = "settled"
     ELSE /\ cmd' = [cmd EXCEPT !.stdout = @ + n]
          /\ UNCHANGED <<cmdPc, cmdLast>>

\* child.stderr.on('data'), lines 109-114: a character arrives
StderrData(c) ==
  /\ cmdPc \in {"running", "settled"}
  /\ cmd.child \in {"alive", "killed"}
  /\ Len(cmd.stderr) < MaxStderr
  /\ UNCHANGED <<envVars, chainVars, ollamaVars, queryVars, safetyVars, debateVars, fileVars, tailVars, rulesVars, lokiVars, batchVars>>
  /\ IF cmd.settled
       THEN UNCHANGED cmdVars
       ELSE /\ cmd' = [cmd EXCEPT !.stderr = Append(@, c)]
            /\ UNCHANGED <<cmdPc, cmdLast>>

\* child.on('error'), lines 116-123: the command could not be run
ChildError ==
  /\ cmdPc \in {"running", "settled"}
  /\ cmd.child = "alive"
  /\ cmd.stdout = 0
  /\ UNCHANGED <<envVars, chainVars, ollamaVars, queryVars, safetyVars, debateVars, fileVars, tailVars, rulesVars, lokiVars, batchVars>>
  /\ IF cmd.settled
       THEN /\ cmd' = [cmd EXCEPT !.child = "failed"]
            /\ UNCHANGED <<cmdPc, cmdLast>>
       ELSE /\ cmd' = [cmd EXCEPT !.child = "failed", !.settled = TRUE,
                                  !.timeout = "cleared"]
            /\ cmdLast' = <<CmdResponse(cmd', 500, "error", FALSE)>>
            /\ cmdPc' = "settled"

\* child.on('close'), lines 125-138: the child is gone, with its exit code
\* (null, which is not 0, after a kill or a failed spawn)
ChildClose(code) ==
  /\ cmdPc \in {"running", "settled"}
  /\ cmd.child \in {"alive", "killed", "failed"}
  /\ cmd.child # "alive" => code # 0
  /\ UNCHANGED <<envVars, chainVars, ollamaVars, queryVars, safetyVars, debateVars, fileVars, tailVars, rulesVars, lokiVars, batchVars>>
  /\ IF cmd.settled
       THEN /\ cmd' = [cmd EXCEPT !.child = "closed"]
            /\ UNCHANGED <<cmdPc, cmdLast>>
       ELSE /\ cmd' = [cmd EXCEPT !.child = "closed", !.settled = TRUE,
                                  !.timeout = "cleared"]
            /\ cmdLast' = <<CmdResponse(cmd', IF code # 0 THEN 502 ELSE 200,
                                        "close", FALSE)>>
            /\ cmdPc' = "settled"

\* the callback of setTimeout, lines 87-94
TimeoutFires ==
  /\ cmdPc \in {"running", "settled"}
  /\ cmd.timeout = "armed"
  /\ UNCHANGED <<envVars, chainVars, ollamaVars, queryVars, safetyVars, debateVars, fileVars, tailVars, rulesVars, lokiVars, batchVars>>
  /\ IF TimeoutSettles(cmd)
       THEN /\ cmd' = [cmd EXCEPT !.timeout = "fired", !.settled = TRUE,
                                  !.child = IF @ = "alive" THEN "killed" ELSE @]
            /\ cmdLast' = <<CmdResponse(cmd', 504, "timeout", TRUE)>>
            /\ cmdPc' = "settled"
       ELSE /\ cmd' = [cmd EXCEPT !.timeout = "fired"]
            /\ UNCHANGED <<cmdPc, cmdLast>>

\* a deployment with MAX_HOURS at its default or set lower
CmdInit ==
  /\ envMaxFileBytes = IncMaxFileBytes
  /\ envMaxLinesCap = TailMaxLinesCap
  /\ envMaxHours \in {LowMaxHours, ANALYZE_MAX_HOURS}
  /\ CmdIdle

CmdNext ==
  \/ \E src \in CommandSources, t \in CommandTargets, h \in 0..MaxHalfHours,
        m \in 1..MaxTailLines : AnalyzeLogs(src, t, h, m)
  \/ \E n \in 1..MaxChunk : StdoutData(n)
  \/ \E c \in StderrChars : StderrData(c)
  \/ ChildError
  \/ \E code \in ExitCodes : ChildClose(code)
  \/ TimeoutFires

InitCmd == CmdInit /\ FileInit /\ TailIdle /\ RulesIdle /\ LokiIdle /\ BatchIdle /\ OthersIdle

SpecCmd == InitCmd /\ [][CmdNext]_vars

\* setTimeout: the event loop runs the callback of an armed timer
LiveCmd == SpecCmd /\ WF_vars(TimeoutFires)

(***************************************************************************)
(* The single-target collectors side by side: collectFileLogs,             *)
(* collectFileLogsIncremental and the command sources, in one deployment   *)
(* over a log file at rest.  The collectors share no state, so each is     *)
(* explored from the state in which the others have not been called.       *)
(***************************************************************************)
CollectFiles == UNION {[1..n -> FileBytes] : n \in 0..MaxFileLen}

IncIdle == incPc = "idle" /\ incLast = <<>>

CollectInit ==
  /\ envMaxFileBytes = TailMaxFileBytes
  /\ envMaxLinesCap = TailMaxLinesCap
  /\ envMaxHours = ANALYZE_MAX_HOURS
  /\ file \in CollectFiles
  /\ edited = FALSE
  /\ incPc = "idle"
  /\ incCall = NoCall
  /\ incLast = <<>>

CollectNext ==
  \/ IncIdle /\ CmdIdle /\ TailNext
  \/ /\ TailIdle /\ CmdIdle
     /\ UNCHANGED chainVars
     /\ \/ \E t \in FileTargets, c \in 0..MaxCursor, m \in 1..MaxTailLines :
             IncStart(t, c, m)
        \/ IncRead
  \/ TailIdle /\ IncIdle /\ CmdNext

InitCollect == CollectInit /\ TailIdle /\ CmdIdle /\ RulesIdle /\ LokiIdle /\ BatchIdle /\ OthersIdle

SpecCollect == InitCollect /\ [][CollectNext]_vars

(***************************************************************************)
(* queryLokiRange: the streams of the aggregator's answer are flattened,   *)
(* sorted by timestamp, cut to the most recent entries and to the byte cap *)
(***************************************************************************)
\* most values in one stream of an answer
MaxValues == 2

\* largest limit a caller asks for
MaxLimit == 4

LOKI_MAX_LINES_CAP == 3

LOKI_MAX_RESPONSE_BYTES == 12

\* the floor of line 687 (1_000 in the source, scaled with the lines)
MinResponseBytes == 10

\* the [timestamp, line] tuples a stream may carry; the last is one the
\* loop skips (its timestamp is not a string BigInt accepts)
QueryValues ==
  [ts : {1, 2}, line : {<<"x">>, <<"y", "y">>}, wellFormed : {TRUE}]
    \cup {[ts |-> 1, line |-> <<"x">>, wellFormed |-> FALSE]}

\* the label sets of the two streams of an answer: none, and app=a
QueryStreamLabels == <<<<>>, <<"app=a">>>>

\* payload.data.result of the answers explored: two streams
QueryResults ==
  {<<[stream |-> QueryStreamLabels[1], values |-> v1],
     [stream |-> QueryStreamLabels[2], values |-> v2]>> :
     v1 \in SeqsUpTo(QueryValues, MaxValues), v2 \in SeqsUpTo(QueryValues, MaxValues)}

\* how fetch and the payload checks end other than with streams
QueryFailures == {"timeout", "refused", "http500", "payload"}

\* clampLokiLimit: the error it throws (0 when it returns)
clampLokiLimitStatus(limit) == IF limit <= 0 THEN 400 ELSE 0

clampLokiLimit(limit) == Min(limit, Max(1, LOKI_MAX_LINES_CAP))

\* new Date(ms).toISOString()
toISOString(ts) == IF ts = 1 THEN <<"T1">> ELSE IF ts = 2 THEN <<"T2">> ELSE <<"T3">>

\* the line flattened.push stores (lines 675-677)
FormatEntry(labelPrefix, value) ==
  IF Len(labelPrefix) > 0
    THEN toISOString(value.ts) \o <<" ", "[">> \o labelPrefix \o <<"]", " ">> \o value.line
    ELSE toISOString(value.ts) \o <<" ">> \o value.line

\* the inner loop of lines 664-682 over the values of one stream; pos is
\* a ghost: the place of the entry in flattened
RECURSIVE FlattenValues(_, _, _)
FlattenValues(labelPrefix, values, acc) ==
  IF Len(values) = 0 THEN acc
  ELSE FlattenValues(labelPrefix, Tail(values),
         IF values[1].wellFormed
           THEN Append(acc, [ts |-> values[1].ts,
                             line |-> FormatEntry(labelPrefix, values[1]),
                             pos |-> Len(acc) + 1])
           ELSE acc)

\* the outer loop of lines 660-682
RECURSIVE Flatten(_, _)
Flatten(result, acc) ==
  IF Len(result) = 0 THEN acc
  ELSE Flatten(Tail(result), FlattenValues(result[1].stream, result[1].values, acc))

\* a plausible slip: an entry is placed before the entries of its timestamp
RECURSIVE InsertBeforeTies(_, _)
InsertBeforeTies(sorted, e) ==
  IF Len(sorted) = 0 THEN <<e>>
  ELSE IF sorted[Len(sorted)].ts < e.ts THEN Append(sorted, e)
  ELSE Append(InsertBeforeTies(SubSeq(sorted, 1, Len(sorted) - 1), e), sorted[Len(sorted)])

\* Array.prototype.sort is stable: an entry goes after the entries the
\* comparator of line 684 does not put after it
RECURSIVE InsertByTs(_, _)
InsertByTs(sorted, e) ==
  IF Len(sorted) = 0 THEN <<e>>
  ELSE IF sorted[Len(sorted)].ts <= e.ts THEN Append(sorted, e)
  ELSE Append(InsertByTs(SubSeq(sorted, 1, Len(sorted) - 1), e), sorted[Len(sorted)])

RECURSIVE SortByTs(_, _)
SortByTs(entries, acc) ==
  IF Len(entries) = 0 THEN acc
  ELSE SortByTs(Tail(entries), InsertByTs(acc, entries[1]))

\* Buffer.byteLength of a text of one-byte characters
byteLength(text) == Len(text)

TruncationMarker == <<"[truncated]", " ", "Loki response exceeded LOKI_MAX_RESPONSE_BYTES">>

\* the loop of lines 692-700: [outLines, bytesUsed, truncated]
RECURSIVE CapByBytes(_, _, _, _)
CapByBytes(selected, maxBytes, outLines, bytesUsed) ==
  IF Len(selected) = 0
    THEN [outLines |-> outLines, bytesUsed |-> bytesUsed, truncated |-> FALSE]
  ELSE IF bytesUsed + byteLength(selected[1].line \o <<NL>>) > maxBytes
    THEN [outLines |-> outLines, bytesUsed |-> bytesUsed, truncated |-> TRUE]
  ELSE CapByBytes(Tail(selected), maxBytes, Append(outLines, selected[1].line),
                  bytesUsed + byteLength(selected[1].line \o <<NL>>))

\* what queryLokiRange returns on an answer with streams, with its locals
QueryOutcome(limit, result) ==
  LET safeLimit == clampLokiLimit(limit)
      flattened == Flatten(result, <<>>)
      selected  == LastN(SortByTs(flattened, <<>>), safeLimit)
      maxBytes  == Max(MinResponseBytes, LOKI_MAX_RESPONSE_BYTES)
      capped    == CapByBytes(selected, maxBytes, <<>>, 0)
  IN [status |-> 200, limit |-> limit, result |-> result,
      flattened |-> flattened, selected |-> selected, maxBytes |-> maxBytes,
      outLines |-> capped.outLines, truncated |-> capped.truncated,
      text |-> joinLines(IF capped.truncated
                           THEN Append(capped.outLines, TruncationMarker)
                           ELSE capped.outLines)]

QueryError(status, limit) ==
  [status |-> status, limit |-> limit, result |-> <<>>, flattened |-> <<>>,
   selected |-> <<>>, maxBytes |-> 0, outLines |-> <<>>, truncated |-> FALSE,
   text |-> <<>>]

\* queryLokiRange on an aggregator that answers with streams
QueryRange(limit, result) ==
  /\ queryLast' = <<IF ~isLokiEnabled THEN QueryError(503, limit)
                    ELSE IF clampLokiLimitStatus(limit) # 0
                      THEN QueryError(clampLokiLimitStatus(limit), limit)
                    ELSE QueryOutcome(limit, result)>>
  /\ UNCHANGED <<envVars, chainVars, ollamaVars, safetyVars, debateVars, cmdVars, fileVars, tailVars,
                 rulesVars, lokiVars, batchVars>>

\* queryLokiRange on an aggregator that does not: the abort of the timer
\* (504), a failed fetch, a non-2xx status or a payload of another shape (502)
QueryRangeFails(limit, failure) ==
  /\ queryLast' = <<IF ~isLokiEnabled THEN QueryError(503, limit)
                    ELSE IF clampLokiLimitStatus(limit) # 0
                      THEN QueryError(clampLokiLimitStatus(limit), limit)
                    ELSE IF failure = "timeout" THEN QueryError(504, limit)
                    ELSE QueryError(502, limit)>>
  /\ UNCHANGED <<envVars, chainVars, ollamaVars, safetyVars, debateVars, cmdVars, fileVars, tailVars,
                 rulesVars, lokiVars, batchVars>>

QueryInit ==
  /\ lokiEnabled \in BOOLEAN
  /\ lokiSent = {}
  /\ lokiLast = <<>>
  /\ queryLast = <<>>

\* one call is followed from each deployment: calls share no state
QueryNext ==
  \/ QueryIdle /\ \E limit \in 0..MaxLimit, result \in QueryResults :
                     QueryRange(limit, result)
  \/ QueryIdle /\ \E limit \in 0..MaxLimit, failure \in QueryFailures :
                     QueryRangeFails(limit, failure)

InitQuery ==
  EnvInit /\ QueryInit /\ FileInit /\ TailIdle /\ CmdIdle /\ RulesIdle /\ BatchIdle
    /\ SafetyIdle /\ DebateIdle /\ OllamaIdle /\ ChainIdle

SpecQuery == InitQuery /\ [][QueryNext]_vars

(***************************************************************************)
(* sanitizeReadOnlyAnalysisOutput (outputSafety.ts). A line is a sequence  *)
(* of words and marks; a text is its lines joined by NL.                   *)
(***************************************************************************)
\* most lines in an analysis
MaxRedactLines == 3

\* two of the twenty patterns, in the order of the list: /\bsudo\b/i and
\* /\bchmod\b/i, each named by the word it matches
FORBIDDEN_PATTERNS == <<"sudo", "chmod">>

\* String(pattern)
PatternString(pattern) == IF pattern = "sudo" THEN "/\\bsudo\\b/i" ELSE "/\\bchmod\\b/i"

\* the backtick character
BT == "BT"

\* three backticks
FENCE == "BT BT BT"

\* the lines of the analyses explored: prose, bullets, numbered items,
\* inline code and fence lines, with no, one or two forbidden words
RedactLines ==
  { <<>>, <<"ok">>, <<"sudo", " ", "ok">>, <<"sudo", " ", "chmod">>,
    <<"chmod", " ", "sudo">>, <<"-", " ", "sudo">>, <<"1.", " ", "chmod">>,
    <<"-", "sudo">>, <<BT, "chmod", BT>>, <<FENCE>>, <<FENCE, "sudo">>,
    <<" ", FENCE>> }

RedactTexts ==
  {joinLines(ls) : ls \in {l \in SeqsUpTo(RedactLines, MaxRedactLines) : Len(l) > 0}}

\* analysis.split('\n')
RECURSIVE splitOnNL(_, _, _)
splitOnNL(text, cur, acc) ==
  IF Len(text) = 0 THEN Append(acc, cur)
  ELSE IF text[1] = NL THEN splitOnNL(Tail(text), <<>>, Append(acc, cur))
  ELSE splitOnNL(Tail(text), Append(cur, text[1]), acc)

\* how many characters of white space lead the line
RECURSIVE LeadingSpaces(_)
LeadingSpaces(line) ==
  IF Len(line) > 0 /\ line[1] = " " THEN 1 + LeadingSpaces(Tail(line)) ELSE 0

\* line.trim() starts with three backticks
IsFenceLine(line) ==
  LeadingSpaces(line) < Len(line) /\ line[LeadingSpaces(line) + 1] = FENCE

\* pattern.test(line)
PatternTest(pattern, line) == \E i \in 1..Len(line) : line[i] = pattern

\* FORBIDDEN_PATTERNS.find(...): the index of the first pattern that matches, or 0
FindMatched(line) ==
  IF \E k \in 1..Len(FORBIDDEN_PATTERNS) : PatternTest(FORBIDDEN_PATTERNS[k], line)
    THEN CHOOSE k \in 1..Len(FORBIDDEN_PATTERNS) :
           /\ PatternTest(FORBIDDEN_PATTERNS[k], line)
           /\ \A j \in 1..(k - 1) : ~PatternTest(FORBIDDEN_PATTERNS[j], line)
    ELSE 0

\* line.includes(backtick)
IncludesBacktick(line) == \E i \in 1..Len(line) : line[i] \in {BT, FENCE}

IsBulletMark(c) == c \in {"-", "*", "1."}

\* /^\s*(?:[-*]|\d+\.)\s+/.test(line)
IsListItem(line) ==
  LET n == LeadingSpaces(line)
  IN /\ n + 2 <= Len(line)
     /\ IsBulletMark(line[n + 1])
     /\ line[n + 2] = " "

\* linePrefixForRedaction: /^(\s*(?:[-*]|\d+\.)\s*)/
linePrefixForRedaction(line) ==
  LET n == LeadingSpaces(line)
  IN IF n < Len(line) /\ IsBulletMark(line[n + 1])
       THEN SubSeq(line, 1, n + 1 + LeadingSpaces(SubSeq(line, n + 2, Len(line))))
       ELSE <<>>

WholesalePlaceholder == "[REDACTED unsafe remediation command removed]"

\* line.replace(matched, '[REDACTED]'): the first match only
RECURSIVE ReplaceFirst(_, _)
ReplaceFirst(line, pattern) ==
  IF Len(line) = 0 THEN <<>>
  ELSE IF line[1] = pattern THEN <<"[REDACTED]">> \o Tail(line)
  ELSE <<line[1]>> \o ReplaceFirst(Tail(line), pattern)

\* reasons.add on a Set, which keeps the order of insertion
SetAdd(reasons, r) ==
  IF \E i \in 1..Len(reasons) : reasons[i] = r THEN reasons ELSE Append(reasons, r)

\* a plausible slip: only a line replaced wholesale counts as a change
MarkChangedWholesale(changed, wholesale) == changed \/ wholesale

\* changed = true (line 69)
MarkChanged(changed, wholesale) == TRUE

\* the callback of lines.map (lines 56-78) applied to the lines in order;
\* redactedLines is a ghost: the lines for which it did not return the line
RECURSIVE SanitizeLines(_, _, _)
SanitizeLines(lines, i, st) ==
  IF i > Len(lines) THEN st
  ELSE LET line == lines[i]
           k == FindMatched(line)
           wholesale == st.inFence \/ IncludesBacktick(line) \/ IsListItem(line)
       IN SanitizeLines(lines, i + 1,
            IF IsFenceLine(line)
              THEN [st EXCEPT !.inFence = ~st.inFence, !.out = Append(@, line)]
            ELSE IF k = 0
              THEN [st EXCEPT !.out = Append(@, line)]
            ELSE [st EXCEPT
                    !.reasons = SetAdd(@, PatternString(FORBIDDEN_PATTERNS[k])),
                    !.changed = MarkChanged(@, wholesale),
                    !.redactedLines = @ \cup {i},
                    !.out = Append(@,
                      IF wholesale
                        THEN linePrefixForRedaction(line) \o <<WholesalePlaceholder>>
                        ELSE ReplaceFirst(line, FORBIDDEN_PATTERNS[k]))])

\* lines 84-88
safetyNote ==
  <<"### Safety Note", NL,
    "Potentially unsafe remediation commands were removed from this analysis.", NL>>

\* sanitizeReadOnlyAnalysisOutput, with the ghosts of its loop
sanitizeReadOnlyAnalysisOutput(analysis) ==
  LET st == SanitizeLines(splitOnNL(analysis, <<>>, <<>>), 1,
              [inFence |-> FALSE, changed |-> FALSE, reasons |-> <<>>,
               out |-> <<>>, redactedLines |-> {}])
  IN IF ~st.changed
       THEN [input |-> analysis, analysis |-> analysis, redacted |-> FALSE,
             reasons |-> <<>>, sanitizedLines |-> st.out,
             redactedLines |-> st.redactedLines]
       ELSE [input |-> analysis, analysis |-> safetyNote \o joinLines(st.out),
             redacted |-> TRUE, reasons |-> st.reasons, sanitizedLines |-> st.out,
             redactedLines |-> st.redactedLines]

\* ensureReadOnlyAnalysisOutput(analysis).safe: no pattern matches the text
ensureReadOnlyAnalysisOutput(analysis) ==
  ~\E k \in 1..Len(FORBIDDEN_PATTERNS) : PatternTest(FORBIDDEN_PATTERNS[k], analysis)

\* a caller hands an analysis to the filter
Redact(analysis) ==
  /\ redactLast' = <<sanitizeReadOnlyAnalysisOutput(analysis)>>
  /\ UNCHANGED <<envVars, chainVars, ollamaVars, queryVars, debateVars, cmdVars, fileVars, tailVars,
                 rulesVars, lokiVars, batchVars>>

\* one call is followed from the start: calls share no state
SafetyNext == SafetyIdle /\ \E analysis \in RedactTexts : Redact(analysis)

InitSafety ==
  EnvInit /\ FileInit /\ TailIdle /\ CmdIdle /\ RulesIdle /\ LokiIdle /\ BatchIdle
    /\ OthersIdle

SpecSafety == InitSafety /\ [][SafetyNext]_vars

(***************************************************************************)
(* POST /v1/debate (routes/debate.ts): the handler runs to its await of    *)
(* runDebate in one step of the event loop and from there to its end in    *)
(* another                                                                 *)
(***************************************************************************)
\* DEBATE_MAX_CONCURRENT of the deployment explored (default 1)
maxActiveDebates == 2

\* the requests that arrive: two more than there are slots
DebateRequests == 1..(maxActiveDebates + 2)

\* how runDebate settles: it resolves, throws a DebateInputError, or
\* throws another error
DebateOutcomes == {"resolved", "inputError", "error"}

\* the locals of one request; started, released and activeAtArrival are
\* ghosts: calls of runDebate, decrements of the counter, and the counter
\* as the request found it
NoDebate ==
  [pc |-> "none", valid |-> FALSE, acquiredDebateSlot |-> FALSE, status |-> 0,
   started |-> 0, released |-> 0, activeAtArrival |-> 0]

\* a plausible slip: the finally block does not look at the flag
ReleasesWithoutFlag(acquiredDebateSlot, active) == active > 0

\* the test of the finally block (line 72)
ReleasesSlot(acquiredDebateSlot, active) == acquiredDebateSlot /\ active > 0

\* the finally block: the counter and the request after it
Finally(r, d) ==
  IF ReleasesSlot(d.acquiredDebateSlot, activeDebates)
    THEN /\ activeDebates' = activeDebates - 1
         /\ debates' = [debates EXCEPT ![r] = [d EXCEPT !.released = @ + 1]]
    ELSE /\ activeDebates' = activeDebates
         /\ debates' = [debates EXCEPT ![r] = d]

\* a request arrives: schema, capacity test, slot, call of runDebate
DebatePost(r, valid) ==
  /\ debates[r].pc = "none"
  /\ LET d == [debates[r] EXCEPT !.valid = valid, !.activeAtArrival = activeDebates]
     IN IF ~valid
          THEN Finally(r, [d EXCEPT !.pc = "done", !.status = 400])
        ELSE IF activeDebates >= maxActiveDebates
          THEN Finally(r, [d EXCEPT !.pc = "done", !.status = 429])
        ELSE /\ activeDebates' = activeDebates + 1
             /\ debates' = [debates EXCEPT ![r] =
                  [d EXCEPT !.pc = "running", !.acquiredDebateSlot = TRUE,
                            !.started = @ + 1]]
  /\ UNCHANGED <<envVars, chainVars, ollamaVars, queryVars, safetyVars, cmdVars, fileVars, tailVars,
                 rulesVars, lokiVars, batchVars>>

\* runDebate settles: the reply, then the finally block
DebateSettles(r, outcome) ==
  /\ debates[r].pc = "running"
  /\ Finally(r, [debates[r] EXCEPT
                   !.pc = "done",
                   !.status = IF outcome = "resolved" THEN 200
                              ELSE IF outcome = "inputError" THEN 400 ELSE 500])
  /\ UNCHANGED <<envVars, chainVars, ollamaVars, queryVars, safetyVars, cmdVars, fileVars, tailVars,
                 rulesVars, lokiVars, batchVars>>

DebateInit ==
  /\ activeDebates = 0
  /\ debates = [r \in DebateRequests |-> NoDebate]

DebateNext ==
  \/ \E r \in DebateRequests, valid \in BOOLEAN : DebatePost(r, valid)
  \/ \E r \in DebateRequests, outcome \in DebateOutcomes : DebateSettles(r, outcome)

InitDebate ==
  EnvInit /\ DebateInit /\ FileInit /\ TailIdle /\ CmdIdle /\ RulesIdle /\ LokiIdle
    /\ BatchIdle /\ QueryIdle /\ SafetyIdle /\ OllamaIdle /\ ChainIdle

SpecDebate == InitDebate /\ [][DebateNext]_vars

(***************************************************************************)
(* analyzeLogsWithOllama: the attempts of one call                         *)
(***************************************************************************)
\* largest OLLAMA_RETRY_ATTEMPTS explored
MaxRetryAttempts == 2

\* how requestOllamaOnce ends: with a text (200), or with the error it
\* throws: the status of a response that is not ok, 502 for an empty text
\* or a failed fetch, 504 for the abort of the timer
AttemptOutcomes == {200, 400, 404, 500, 408, 429, 502, 503, 504}

\* a plausible slip: every 5xx is retried
isRetryableAny5xx(status) == status \in {408, 429, 500, 502, 503, 504}

isRetryableStatus(status) == status \in {408, 429, 502, 503, 504}

\* Math.max(1, Math.floor(OLLAMA_RETRY_ATTEMPTS) + 1)
maxAttempts == Max(1, ollama.retryAttempts + 1)

\* the call enters the loop and makes its first request
OllamaCall ==
  /\ ollama.pc = "idle"
  /\ ollama' = [ollama EXCEPT !.pc = "request", !.attempt = 1]
  /\ UNCHANGED <<envVars, chainVars, queryVars, safetyVars, debateVars, cmdVars, fileVars,
                 tailVars, rulesVars, lokiVars, batchVars>>

\* requestOllamaOnce settles: return, or the catch block up to its throw
\* or its sleep
OllamaAttemptEnds(outcome) ==
  /\ ollama.pc = "request"
  /\ LET seen == [ollama EXCEPT !.attempts = Append(@, outcome)]
         retryable == IF outcome > 0 THEN isRetryableStatus(outcome) ELSE TRUE
         shouldRetry == retryable /\ ollama.attempt < maxAttempts
     IN ollama' =
          IF outcome = 200 THEN [seen EXCEPT !.pc = "returned", !.result = 200]
          ELSE IF ~shouldRetry
            THEN [seen EXCEPT !.pc = "thrown", !.lastError = outcome, !.result = outcome]
          ELSE [seen EXCEPT !.pc = "sleep", !.lastError = outcome]
  /\ UNCHANGED <<envVars, chainVars, queryVars, safetyVars, debateVars, cmdVars, fileVars,
                 tailVars, rulesVars, lokiVars, batchVars>>

\* the timer of sleep(backoff) fires: the next turn of the loop
OllamaBackoffEnds ==
  /\ ollama.pc = "sleep"
  /\ ollama' = [ollama EXCEPT !.pc = "request", !.attempt = @ + 1]
  /\ UNCHANGED <<envVars, chainVars, queryVars, safetyVars, debateVars, cmdVars, fileVars,
                 tailVars, rulesVars, lokiVars, batchVars>>

OllamaInit ==
  ollama \in {[NoOllama EXCEPT !.retryAttempts = r] : r \in (0 - 1)..MaxRetryAttempts}

OllamaNext ==
  \/ OllamaCall
  \/ \E outcome \in AttemptOutcomes : OllamaAttemptEnds(outcome)
  \/ OllamaBackoffEnds

InitOllama ==
  EnvInit /\ OllamaInit /\ FileInit /\ TailIdle /\ CmdIdle /\ RulesIdle /\ LokiIdle
    /\ BatchIdle /\ QueryIdle /\ SafetyIdle /\ DebateIdle /\ ChainIdle

SpecOllama == InitOllama /\ [][OllamaNext]_vars

(***************************************************************************)
(* Claims about the path allowlist of the file collector                   *)
(***************************************************************************)
\* fs.realpath over the paths of the explored file system, none of which is
\* a symbolic link: the path itself, <<>> when there is no such entry
realpath(p) == IF p \in Readable THEN <<p>> ELSE <<>>

\* the canonical form of the path is that of an allowlisted file that exists
CanonicallyAllowed(p) ==
  /\ realpath(p) # <<>>
  /\ \E entry \in parseAllowedFilePaths : realpath(entry) = realpath(p)

\* C20 as stated: a file is read only when its canonical path is that of an
\* allowlisted file; every other path is refused with 403, a path that has
\* no canonical form (a missing entry) included.
C20_Original ==
  Len(tailLast) = 1
    => /\ tailLast[1].status = 200 => CanonicallyAllowed(tailLast[1].target)
       /\ ~CanonicallyAllowed(tailLast[1].target) => tailLast[1].status = 403

(***************************************************************************)
(* Claims about the line and hour limits                                   *)
(***************************************************************************)
\* the number of lines of a text the collectors return
LineCount(text) == IF Len(text) = 0 THEN 0 ELSE CountNewlines(text) + 1

\* C14: whatever maxLines is asked for, above MAX_LINES_CAP included, the
\* full tail and the incremental read return at most
\* min(maxLines, MAX_LINES_CAP) lines, and the line count handed to
\* journalctl (-n) and docker (--tail) is at most MAX_LINES_CAP.
C14_LinesNeverExceedCap ==
  /\ TailOk
       => LineCount(tailLast[1].logs)
            <= Min(tailLast[1].maxLines, MAX_LINES_CAP)
  /\ IncOk
       => LineCount(incLast[1].logs)
            <= Min(incLast[1].maxLines, MAX_LINES_CAP)
  /\ cmdPc # "idle"
       => /\ cmd.lines >= 1
          /\ cmd.lines <= Min(cmd.maxLines, MAX_LINES_CAP)

\* C14 witness: a file with more lines than the cap was tailed with maxLines
\* above the cap, and as many lines as the cap allows came back.
C14_Witness ==
  /\ TailOk
  /\ tailLast[1].maxLines > MAX_LINES_CAP
  /\ Len(FileLines(file)) > MAX_LINES_CAP
  /\ LineCount(tailLast[1].logs) = MAX_LINES_CAP

\* the request served last was answered
Answered == Len(cmdLast) = 1

\* C15 as stated: a request whose hours exceed MAX_HOURS is not rejected for
\* it, and is served with a window of MAX_HOURS.
C15_Original ==
  /\ (Answered /\ cmdLast[1].halfHours > 2 * MAX_HOURS)
       => cmdLast[1].by # "schema"
  /\ (cmdPc # "idle" /\ cmd.halfHours > 2 * MAX_HOURS)
       => cmd.sinceHours = MAX_HOURS

\* C16 as stated: for every accepted request, fractional hours included, the
\* hours that build the window of journalctl or docker are strictly positive
\* and at most MAX_HOURS.
C16_Original ==
  cmdPc # "idle" => (cmd.sinceHours > 0 /\ cmd.sinceHours <= MAX_HOURS)

(***************************************************************************)
(* Claims about the command collector                                      *)
(***************************************************************************)
\* C17: the size of stdout is checked after every chunk: a call that is not
\* settled holds at most MAX_COMMAND_BYTES; once a chunk takes it beyond,
\* the child is killed and the call fails with 413; a call that succeeds
\* returns at most MAX_COMMAND_BYTES bytes.
C17_StdoutNeverExceedsCap ==
  /\ cmdPc = "running" => cmd.stdout <= MAX_COMMAND_BYTES
  /\ (Answered /\ cmdLast[1].status = 200) => cmdLast[1].stdout <= MAX_COMMAND_BYTES
  /\ (cmdPc # "idle" /\ cmd.stdout > MAX_COMMAND_BYTES)
       => /\ cmd.settled
          /\ cmd.child \in {"killed", "closed"}
          /\ Answered
          /\ cmdLast[1].status = 413
          /\ cmdLast[1].killed

\* C17 witness: a second chunk took stdout beyond the cap and the call was
\* answered 413 with the child killed.
C17_Witness ==
  /\ Answered
  /\ cmdLast[1].status = 413
  /\ cmdLast[1].killed
  /\ cmdLast[1].stdout > MAX_COMMAND_BYTES
  /\ cmdLast[1].stdout < MAX_COMMAND_BYTES + MaxChunk

\* C18: every call of the command collector settles; when the timer fires on
\* a call that is not settled, the child is killed with SIGKILL and the call
\* fails with 504, output or no output.
C18_EveryCallSettles ==
  /\ [][(cmd.timeout = "armed" /\ cmd'.timeout = "fired" /\ ~cmd.settled)
          => /\ cmd'.settled
             /\ cmd'.child # "alive"
             /\ cmdLast' = <<CmdResponse(cmd', 504, "timeout", TRUE)>>]_vars
  /\ (cmdPc = "running") ~> (cmdPc = "settled")

\* C18 witness: the timer settled a call whose child had written output and
\* had not closed.
C18_Witness ==
  /\ Answered
  /\ cmdLast[1].status = 504
  /\ cmdLast[1].killed
  /\ cmdLast[1].stdout > 0
  /\ cmd.child = "killed"

\* the ~300 characters of stderr the claim allows, scaled down
StderrTail == 1

\* C19 as stated: a non-zero exit fails with 502 and the error carries no
\* more than the last ~300 characters of stderr.
C19_Original ==
  (Answered /\ cmdLast[1].by = "close" /\ cmdLast[1].status # 200)
    => /\ cmdLast[1].status = 502
       /\ cmdLast[1].detail # NoStderr => Len(cmdLast[1].detail) <= StderrTail

\* the event that settles a call in this step, by what it changes
SettlingEvent ==
  IF cmd.timeout = "armed" /\ cmd'.timeout = "fired" THEN "timeout"
  ELSE IF cmd'.stdout # cmd.stdout THEN "overflow"
  ELSE IF cmd'.child = "failed" THEN "error"
  ELSE "close"

QueryOk == Len(queryLast) = 1 /\ queryLast[1].status = 200

\* the order the sort must produce: by timestamp, then by place in the answer
Before(e, f) == e.ts < f.ts \/ (e.ts = f.ts /\ e.pos < f.pos)

\* the well-formed entries of the answer, stream after stream
RECURSIVE AnswerEntries(_)
AnswerEntries(result) ==
  IF Len(result) = 0 THEN <<>>
  ELSE SelectSeq(result[1].values, LAMBDA v : v.wellFormed) \o AnswerEntries(Tail(result))

\* C22: the entries queryLokiRange keeps are entries of the answer, in
\* non-decreasing timestamp order with equal timestamps in the order of the
\* answer; they are the min(limit, line cap) most recent of all the entries;
\* and they are the lines returned, in that order, up to the byte cap.
C22_MergedSortedMostRecent ==
  QueryOk =>
    LET q == queryLast[1]
        all == AnswerEntries(q.result)
        kept == {q.selected[i].pos : i \in 1..Len(q.selected)}
    IN /\ Len(q.selected) = Min(Len(all), Min(q.limit, LOKI_MAX_LINES_CAP))
       /\ \A i \in 1..Len(q.selected) :
            /\ q.selected[i].pos \in 1..Len(all)
            /\ q.selected[i].ts = all[q.selected[i].pos].ts
       /\ \A i, j \in 1..Len(q.selected) :
            i < j => Before(q.selected[i], q.selected[j])
       /\ \A p \in 1..Len(all) : p \notin kept =>
            \A i \in 1..Len(q.selected) :
              Before([ts |-> all[p].ts, pos |-> p], q.selected[i])
       /\ \A i \in 1..Len(q.outLines) : q.outLines[i] = q.selected[i].line
       /\ ~q.truncated => /\ Len(q.outLines) = Len(q.selected)
                          /\ q.text = joinLines(q.outLines)

\* an answer whose second stream holds an entry as old as one of the first
\* and older than another, with more entries than the limit keeps
C22_Witness ==
  /\ QueryOk
  /\ Len(queryLast[1].flattened) > Len(queryLast[1].selected)
  /\ \E i, j \in 1..Len(queryLast[1].selected) :
       /\ i < j
       /\ queryLast[1].selected[i].ts = queryLast[1].selected[j].ts
  /\ \E i, j \in 1..Len(queryLast[1].selected) :
       /\ i < j
       /\ queryLast[1].selected[i].pos > queryLast[1].selected[j].pos

\* C23 as stated: the text returned is never longer than the byte cap, is
\* made of whole formatted entries, and carries the truncation marker only
\* as its last line, exactly when an entry was left out because of the cap.
C23_Original ==
  QueryOk =>
    LET q == queryLast[1]
        lines == splitLines(q.text)
    IN /\ byteLength(q.text) <= q.maxBytes
       /\ \A i \in 1..Len(lines) :
            \/ \E k \in 1..Len(q.selected) : lines[i] = q.selected[k].line
            \/ lines[i] = TruncationMarker /\ i = Len(lines)
            \/ Len(q.text) = 0
       /\ (lines[Len(lines)] = TruncationMarker) <=> Len(q.outLines) < Len(q.selected)

\* the part of C23 the code keeps: whole entries, and the marker as the last
\* line exactly when an entry was left out
C23_WholeEntriesAndMarker ==
  QueryOk =>
    LET q == queryLast[1]
        lines == splitLines(q.text)
    IN /\ \A i \in 1..Len(lines) :
            \/ \E k \in 1..Len(q.selected) : lines[i] = q.selected[k].line
            \/ lines[i] = TruncationMarker /\ i = Len(lines)
            \/ Len(q.text) = 0
       /\ (lines[Len(lines)] = TruncationMarker) <=> Len(q.outLines) < Len(q.selected)

(***************************************************************************)
(* Claims about sanitizeReadOnlyAnalysisOutput                             *)
(***************************************************************************)
Redacted == Len(redactLast) = 1

InputLines == splitOnNL(redactLast[1].input, <<>>, <<>>)

\* the lines of the input the filter returned otherwise than they were
ChangedLines ==
  {i \in 1..Len(InputLines) : redactLast[1].sanitizedLines[i] # InputLines[i]}

MatchesSome(line) ==
  \E k \in 1..Len(FORBIDDEN_PATTERNS) : PatternTest(FORBIDDEN_PATTERNS[k], line)

\* the fence flag when line i is reached: an odd number of fence lines
\* came before it
InFenceAt(i) ==
  Cardinality({j \in 1..(i - 1) : IsFenceLine(InputLines[j])}) % 2 = 1

\* C24: redacted is true exactly when some line was redacted; then the text
\* returned is the Safety Note banner followed by the lines, and reasons is
\* not empty; otherwise the text returned is the input and reasons is empty.
C24_RedactedIffLineRedacted ==
  Redacted =>
    LET r == redactLast[1]
    IN /\ Len(r.sanitizedLines) = Len(InputLines)
       /\ r.redacted <=> ChangedLines # {}
       /\ r.redacted =>
            /\ r.analysis = safetyNote \o joinLines(r.sanitizedLines)
            /\ SubSeq(r.analysis, 1, 1) = <<"### Safety Note">>
            /\ Len(r.reasons) > 0
       /\ ~r.redacted =>
            /\ r.analysis = r.input
            /\ r.reasons = <<>>

\* a text of several lines of which a line of prose alone was redacted
C24_Witness ==
  /\ Redacted
  /\ redactLast[1].redacted
  /\ Len(InputLines) > 1
  /\ Cardinality(ChangedLines) = 1
  /\ \A i \in ChangedLines :
       ~(InFenceAt(i) \/ IncludesBacktick(InputLines[i]) \/ IsListItem(InputLines[i]))

\* what C25 says of line i: a line that matches a pattern is replaced by
\* its prefix and the placeholder when in a fence, a list item or with a
\* code span, and has only matched text replaced otherwise; a line that
\* matches none stays
LineAsStated(i) ==
  LET line == InputLines[i]
      out == redactLast[1].sanitizedLines[i]
  IN IF ~MatchesSome(line) THEN out = line
     ELSE IF InFenceAt(i) \/ IsListItem(line) \/ IncludesBacktick(line)
       THEN out = linePrefixForRedaction(line) \o <<WholesalePlaceholder>>
     ELSE /\ Len(out) = Len(line)
          /\ out # line
          /\ \A j \in 1..Len(line) :
               \/ out[j] = line[j]
               \/ out[j] = "[REDACTED]" /\ MatchesSome(<<line[j]>>)

\* C25 as stated: every line of the input is treated as the claim says,
\* with the fence flag flipping on the lines that start with a fence.
C25_Original ==
  Redacted => \A i \in 1..Len(InputLines) : LineAsStated(i)

\* the lines that do not start with a fence are treated as stated
C25_OtherThanFenceLines ==
  Redacted => \A i \in 1..Len(InputLines) : ~IsFenceLine(InputLines[i]) => LineAsStated(i)

\* C26 as stated: reasons holds, once each, the string of every pattern that
\* matches a redacted line, also when a line matches several patterns.
C26_Original ==
  Redacted =>
    LET r == redactLast[1]
    IN /\ \A i, j \in 1..Len(r.reasons) : i # j => r.reasons[i] # r.reasons[j]
       /\ \A i \in ChangedLines : \A k \in 1..Len(FORBIDDEN_PATTERNS) :
            PatternTest(FORBIDDEN_PATTERNS[k], InputLines[i]) =>
              \E n \in 1..Len(r.reasons) :
                r.reasons[n] = PatternString(FORBIDDEN_PATTERNS[k])

\* reasons holds, once each, the string of the first pattern of the list
\* that matches each redacted line
C26_FirstPatternOfEachLine ==
  Redacted =>
    LET r == redactLast[1]
    IN /\ \A i, j \in 1..Len(r.reasons) : i # j => r.reasons[i] # r.reasons[j]
       /\ {r.reasons[n] : n \in 1..Len(r.reasons)} =
            {PatternString(FORBIDDEN_PATTERNS[FindMatched(InputLines[i])]) :
               i \in ChangedLines}

(***************************************************************************)
(* Claims about POST /v1/debate                                            *)
(***************************************************************************)
\* the requests that hold a slot: between the call of runDebate and the end
Holding == {r \in DOMAIN debates : debates[r].pc = "running"}

\* C28: the requests that hold a slot are as many as the counter says and
\* never more than DEBATE_MAX_CONCURRENT; a valid request that finds the
\* limit reached is answered 429 and starts no debate, any other valid
\* request starts exactly one; a request that took a slot has released it
\* exactly once when it has ended, whatever the outcome of the debate, and
\* not before; a request that took none releases none.
C28_SlotsBoundedAndReleasedOnce ==
  /\ activeDebates = Cardinality(Holding)
  /\ activeDebates \in 0..maxActiveDebates
  /\ \A r \in DOMAIN debates :
       LET d == debates[r]
       IN /\ (d.pc # "none" /\ d.valid /\ d.activeAtArrival >= maxActiveDebates)
               => d.pc = "done" /\ d.status = 429 /\ d.started = 0
          /\ (d.pc # "none" /\ d.valid /\ d.activeAtArrival < maxActiveDebates)
               => d.started = 1 /\ d.status # 429
          /\ (d.pc # "none" /\ ~d.valid) => d.status = 400 /\ d.started = 0
          /\ d.released = (IF d.pc = "done" /\ d.started = 1 THEN 1 ELSE 0)

\* every slot is held, a valid request was turned away with 429, and a
\* debate that failed has given its slot back
C28_Witness ==
  /\ activeDebates = maxActiveDebates
  /\ \E r \in DOMAIN debates :
       debates[r].status = 429 /\ debates[r].activeAtArrival = maxActiveDebates
  /\ \E r \in DOMAIN debates :
       debates[r].status = 500 /\ debates[r].released = 1

(***************************************************************************)
(* Claims about analyzeLogsWithOllama                                      *)
(***************************************************************************)
\* C32: a call makes at most max(1, OLLAMA_RETRY_ATTEMPTS + 1) attempts;
\* every attempt but the last one made failed with 408, 429, 502, 503 or
\* 504; a failure with another status ends the call at once; a response
\* ends it with that response; and a call that fails does so with the
\* error of the last attempt made, after the last attempt allowed unless
\* the error is not one to retry.
C32_BoundedRetries ==
  LET a == ollama.attempts
      n == Len(a)
      most == IF ollama.retryAttempts + 1 > 1 THEN ollama.retryAttempts + 1 ELSE 1
  IN /\ n <= most
     /\ \A i \in 1..(n - 1) : a[i] \in {408, 429, 502, 503, 504}
     /\ (n > 0 /\ a[n] = 200) => ollama.pc = "returned"
     /\ (n > 0 /\ a[n] \notin {200, 408, 429, 502, 503, 504}) => ollama.pc = "thrown"
     /\ ollama.pc = "returned" => a[n] = 200
     /\ ollama.pc = "thrown" =>
          /\ ollama.result = a[n]
          /\ a[n] # 200
          /\ a[n] \in {408, 429, 502, 503, 504} => n = most
     /\ ollama.pc = "sleep" => n < most
     /\ ollama.pc = "request" => n = ollama.attempt - 1

\* two retries allowed: three attempts fail with errors that are retried,
\* and the call fails with the last of them
C32_Witness ==
  /\ ollama.pc = "thrown"
  /\ ollama.retryAttempts = 2
  /\ ollama.attempts = <<503, 429, 504>>
  /\ ollama.result = 504

\* C34 as stated: a text that ensureReadOnlyAnalysisOutput finds unsafe comes
\* back from sanitizeReadOnlyAnalysisOutput with redacted = true.
C34_Original ==
  (Redacted /\ ~ensureReadOnlyAnalysisOutput(redactLast[1].input))
    => redactLast[1].redacted

\* a text found unsafe comes back redacted when one of its lines that does
\* not start with a fence matches a pattern
C34_UnlessOnFenceLines ==
  (Redacted /\ \E i \in 1..Len(InputLines) :
                 ~IsFenceLine(InputLines[i]) /\ MatchesSome(InputLines[i]))
    => redactLast[1].redacted

\* C35 as stated: no forbidden pattern matches the text that
\* sanitizeReadOnlyAnalysisOutput returns.
C35_Original ==
  Redacted => ensureReadOnlyAnalysisOutput(redactLast[1].analysis)

\* a request with filters was served
FiltersServed ==
  /\ batchPc = "done"
  /\ Len(body) = 1
  /\ SchemaAccepts(body[1])
  /\ Given(body[1].filters)
  /\ Len(lokiLast) = 1

\* label validation and the scope guard accepted the filters of the request
FiltersAccepted ==
  /\ FiltersServed
  /\ buildEffectiveLokiQuery(body[1]).status = 0
  /\ enforceScopeGuard(body[1], buildEffectiveLokiQuery(body[1]).text) = 0

\* the selector block of the built query, parsed
ParsedBack ==
  Bind(extractSelectorExpression(buildEffectiveLokiQuery(body[1]).text), LAMBDA sel :
    IF sel.status # 0 THEN [status |-> sel.status, labels |-> <<>>]
    ELSE parseSimpleSelector(sel.text))

\* C38 as stated: for every filter map that label validation and the scope
\* guard accept, the selector block of the built query parses back to the
\* same label map and the re-check of collectLokiBatchLogs accepts it.
C38_Original ==
  FiltersAccepted =>
    /\ ParsedBack.status = 0
    /\ ParsedBack.labels = body[1].filters[1]
    /\ ensureAllowlistedSelectorFromQuery(buildEffectiveLokiQuery(body[1]).text) = 0

\* values without backslash, quote, bar or brace do come back as sent
C38_PlainValues ==
  (FiltersAccepted /\ \A k \in DOMAIN body[1].filters[1] : body[1].filters[1][k] = Va)
    => /\ ParsedBack.status = 0
       /\ ParsedBack.labels = body[1].filters[1]
       /\ ensureAllowlistedSelectorFromQuery(buildEffectiveLokiQuery(body[1]).text) = 0

(***************************************************************************)
(* Claims about target validation                                          *)
(***************************************************************************)
\* C21 as stated: for the journal, container and file sources a target with
\* a character outside [A-Za-z0-9._:@/-] is answered 400, no command is
\* spawned for it and no path is looked up for it.
C21_Original ==
  /\ (Answered /\ cmdLast[1].target \in UnsupportedTargets)
       => cmdLast[1].status = 400
  /\ cmdPc # "idle" => cmd.target \notin UnsupportedTargets
  /\ (Len(tailLast) = 1 /\ tailLast[1].target \in UnsupportedTargets)
       => tailLast[1].status = 400
  /\ tailPc = "reading" => tailCall.target \notin UnsupportedTargets

(***************************************************************************)
(* Claims about the rules engine                                           *)
(***************************************************************************)
\* the last validation ran against loaded rules (it did not fail with 503)
Validated == Len(valLast) = 1 /\ valLast[1].verdict.status # 503

\* C6: a filter set with a key outside allowedLabels is rejected with 403,
\* whatever its value and whatever the other entries are.
C6_UnknownKeyRejected403 ==
  Validated =>
    LET rules == cachedLokiRules[1]
        labels == valLast[1].labels
    IN (\E k \in DOMAIN labels : k \notin rules.allowedLabels)
         => valLast[1].verdict.status = 403

\* C6 witness: one key outside allowedLabels among entries that would all
\* pass on their own (job as configured, host in the hosts set).
C6_Witness ==
  /\ Validated
  /\ LET rules == cachedLokiRules[1]
         labels == valLast[1].labels
     IN /\ DOMAIN labels = {"app", "job", "host"}
        /\ "app" \notin rules.allowedLabels
        /\ {"job", "host"} \subseteq rules.allowedLabels
        /\ rules.job = <<labels["job"]>>
        /\ labels["host"] \in rules.hosts
        /\ valLast[1].verdict.status = 403

\* what C7 says is accepted
C7_Acceptable(rules, labels) ==
  /\ \A k \in DOMAIN labels : k \in rules.allowedLabels
  /\ Len(rules.job) = 1 => (Has(labels, "job") /\ labels["job"] = rules.job[1])
  /\ Has(labels, "host") =>
       \/ labels["host"] \in rules.hosts
       \/ (Len(rules.hostsRegex) = 1 /\ labels["host"] \in rules.hostsRegex[1])
  /\ Has(labels, "unit") =>
       \/ labels["unit"] \in rules.units
       \/ (Len(rules.unitsRegex) = 1 /\ labels["unit"] \in rules.unitsRegex[1])

\* C7: validation accepts a filter set exactly when every key is allowed,
\* job equals the configured job (when one is configured), and host and unit
\* (when present) are in their set or match their pattern.
C7_AcceptIffRulesHold ==
  Validated =>
    (valLast[1].verdict.status = 0
       <=> C7_Acceptable(cachedLokiRules[1], valLast[1].labels))

\* C7 witness: accepted with host matching only the pattern and unit only in
\* the set, a job being configured.
C7_Witness ==
  /\ Validated
  /\ valLast[1].verdict.status = 0
  /\ LET rules == cachedLokiRules[1]
         labels == valLast[1].labels
     IN /\ Len(rules.job) = 1
        /\ Has(labels, "host") /\ labels["host"] \notin rules.hosts
        /\ Len(rules.hostsRegex) = 1
        /\ Has(labels, "unit") /\ labels["unit"] \in rules.units
        /\ Len(rules.unitsRegex) = 0

\* C8 as stated: the rules file is read and parsed at most once, also while
\* it is missing or invalid, and rules once loaded are never replaced.
C8_Original ==
  [][/\ rulesReads' <= 1
     /\ Len(cachedLokiRules) = 1 => cachedLokiRules' = cachedLokiRules]_vars

\* the rules a filter set breaks, each on its own
BreaksKeyRule(rules, labels) == \E k \in DOMAIN labels : k \notin rules.allowedLabels

BreaksJobRule(rules, labels) ==
  Len(rules.job) = 1 /\ ~(Has(labels, "job") /\ labels["job"] = rules.job[1])

BreaksHostRule(rules, labels) ==
  /\ Has(labels, "host")
  /\ labels["host"] \notin rules.hosts
  /\ ~(Len(rules.hostsRegex) = 1 /\ labels["host"] \in rules.hostsRegex[1])

BreaksUnitRule(rules, labels) ==
  /\ Has(labels, "unit")
  /\ labels["unit"] \notin rules.units
  /\ ~(Len(rules.unitsRegex) = 1 /\ labels["unit"] \in rules.unitsRegex[1])

\* C31: the error of a validation is that of the first rule broken in the
\* order key, job, host, unit, and every such error has status 403.
C31_EarliestRuleReported ==
  Validated =>
    LET rules == cachedLokiRules[1]
        labels == valLast[1].labels
        v == valLast[1].verdict
    IN /\ v.status \in {0, 403}
       /\ v.err # "none" => v.status = 403
       /\ BreaksKeyRule(rules, labels) => v.err = "label"
       /\ (~BreaksKeyRule(rules, labels) /\ BreaksJobRule(rules, labels))
            => v.err \in {"job-missing", "job"}
       /\ (~BreaksKeyRule(rules, labels) /\ ~BreaksJobRule(rules, labels)
             /\ BreaksHostRule(rules, labels)) => v.err = "host"
       /\ (~BreaksKeyRule(rules, labels) /\ ~BreaksJobRule(rules, labels)
             /\ ~BreaksHostRule(rules, labels) /\ BreaksUnitRule(rules, labels))
            => v.err = "unit"

\* a filter set with allowed keys that breaks the job, host and unit rules
\* together: the job error is the one reported
C31_Witness ==
  /\ Validated
  /\ LET rules == cachedLokiRules[1]
         labels == valLast[1].labels
     IN /\ ~BreaksKeyRule(rules, labels)
        /\ BreaksJobRule(rules, labels)
        /\ BreaksHostRule(rules, labels)
        /\ BreaksUnitRule(rules, labels)
        /\ valLast[1].verdict = Verdict(403, "job")

(***************************************************************************)
(* Claims about the batch handler                                          *)
(***************************************************************************)
\* the handler went through runConcurrent
Ran == DOMAIN items # {}

\* C1: whatever the items, the concurrency and the order in which the worker
\* calls settle, results has the length of items and results[i], once set,
\* is what the worker produced for items[i]; every slot is set on return.
C1_ResultsFollowItems ==
  /\ DOMAIN results = DOMAIN items
  /\ \A i \in DOMAIN results :
       results[i] # <<>> => results[i][1] = Worker(body[1].source, items[i])
  /\ (Ran /\ batchPc = "done") => \A i \in DOMAIN results : results[i] # <<>>

\* C1 witness: a later item settled before an earlier one that gives a
\* different result.
C1_Witness ==
  /\ batchPc = "running"
  /\ {0, 1, 2} \subseteq DOMAIN items
  /\ results[0] = <<>>
  /\ results[2] # <<>>
  /\ results[2][1].status = 504
  /\ CollectStatus(body[1].source, items[0]) = 0

\* C2: a failing item is an Err entry at its own index with its own status,
\* every other item still runs and keeps its own result, and the tally
\* counts the items that succeeded and those that failed.
C2_FailureStaysAtItsIndex ==
  (Ran /\ batchPc = "done") =>
    LET r == response[1]
        st(i) == CollectStatus(body[1].source, items[i])
    IN /\ r.status = 200
       /\ DOMAIN r.results = DOMAIN items
       /\ \A i \in DOMAIN items :
            /\ r.results[i].target = items[i]
            /\ r.results[i].ok <=> st(i) = 0
            /\ r.results[i].status = st(i)
       /\ r.ok = Cardinality({i \in DOMAIN items : st(i) = 0})
       /\ r.failed = Cardinality({i \in DOMAIN items : st(i) # 0})

\* C2 witness: 5 items, concurrency 2, the third fails: ok=4, failed=1 and
\* results[2] is the Err entry.
C2_Witness ==
  /\ Ran /\ batchPc = "done"
  /\ body[1].source = "journald"
  /\ body[1].targets = <<"sshd", "sshd", "slow", "sshd", "sshd">>
  /\ body[1].concurrency = 2
  /\ response[1].ok = 4
  /\ response[1].failed = 1
  /\ ~response[1].results[2].ok
  /\ response[1].results[2].status = 504

\* C3 as stated: a batch that names targets is answered 200 with one entry
\* per target named, whatever is wrong with any one of them.
C3_Original ==
  (batchPc = "done" /\ SchemaAccepts(body[1]) /\ RequestedTargets(body[1]) > 0
     /\ ~(body[1].source = "loki" /\ (HasQuery(body[1]) \/ Given(body[1].filters))))
    => /\ response[1].status = 200
       /\ response[1].analyzedTargets = RequestedTargets(body[1])

\* C4 as stated: every query sent to the aggregator was compiled by the
\* query builder from the filter map of the request.
C4_Original ==
  lokiSent # {} =>
    /\ Given(body[1].filters)
    /\ lokiSent = {buildEffectiveLokiQuery(body[1]).text}

\* the label names of the selector block of a query
SelectorLabels(query) ==
  DOMAIN parseSimpleSelector(extractSelectorExpression(query).text).labels

\* C5 as stated: without allowUnscoped, no query whose label set has neither
\* host nor unit is sent to the aggregator, on either path.
C5_Original ==
  (LOKI_REQUIRE_SCOPE_LABELS /\ lokiSent # {} /\ ~body[1].allowUnscoped) =>
    \A q \in lokiSent : SelectorLabels(q) \cap {"host", "unit"} # {}

\* the nearest value of the configured range
ClampConcurrency(c) == Max(BATCH_CONCURRENCY_MIN, Min(c, BATCH_CONCURRENCY_MAX))

\* C27 as stated: whatever concurrency a journald batch that names targets
\* carries, the batch is served, by min(clamped concurrency, items) runners.
C27_Original ==
  (batchPc # "idle" /\ body[1].source = "journald" /\ Len(body[1].targets) > 0)
    => /\ Ran
       /\ Cardinality(DOMAIN runners) =
            Min(ClampConcurrency(body[1].concurrency), Len(body[1].targets))

\* a concurrency of the configured range is used as it is
C27_InRangeUsedAsSent ==
  (batchPc # "idle" /\ body[1].source = "journald" /\ Len(body[1].targets) > 0
     /\ body[1].concurrency \in BATCH_CONCURRENCY_MIN..BATCH_CONCURRENCY_MAX)
    => /\ Ran
       /\ Cardinality(DOMAIN runners) = Min(body[1].concurrency, Len(body[1].targets))

\* a concurrency outside the configured range is refused with 400
C27_OutOfRangeRefused ==
  (batchPc # "idle" /\ body[1].concurrency \notin BATCH_CONCURRENCY_MIN..BATCH_CONCURRENCY_MAX)
    => ~Ran /\ batchPc = "done" /\ response[1].status = 400

(***************************************************************************)
(* Claims about runConcurrent                                              *)
(***************************************************************************)
\* the runners that wait for a worker call
InFlight == {r \in DOMAIN runners : runners[r].pc = "await"}

\* a worker call starts in this step for runner r
CallStarts(r) ==
  /\ r \in DOMAIN runners'
  /\ runners'[r].pc = "await"
  /\ \/ r \notin DOMAIN runners
     \/ runners[r].pc # "await"
     \/ runners[r].current # runners'[r].current

\* C29: the worker calls in flight are never more than min(concurrency,
\* items), and no call starts once the counter has passed the last index.
C29_InFlightBounded ==
  /\ [](batchPc = "running" =>
          Cardinality(InFlight) <= Min(body[1].concurrency, Cardinality(DOMAIN items)))
  /\ [][(batchPc = "running" /\ index >= Cardinality(DOMAIN items))
          => \A r \in 1..BATCH_CONCURRENCY_MAX : ~CallStarts(r)]_vars

\* five items and two runners: every index is claimed, one runner has left
\* the loop and the other still waits for its call
C29_Witness ==
  /\ batchPc = "running"
  /\ Cardinality(DOMAIN items) = 5
  /\ body[1].concurrency = 2
  /\ index >= 5
  /\ Cardinality(InFlight) = 1

\* the indexes whose worker call has finished, and those whose call is in flight
Settled == {i \in DOMAIN results : results[i] # <<>>}

Claimed == {runners[r].current : r \in InFlight}

\* C30: each index is handed to one runner and the worker is called for it
\* once: the calls in flight are for different indexes whose result is not
\* there yet, the indexes claimed so far are those below the counter with
\* none left out, a call that starts takes the index of the counter, a
\* result once stored stays, and the reply comes when every runner has left
\* the loop and every item has its result; with no items there is no call
\* and the reply holds an empty array.
C30_EachItemOnce ==
  /\ [](batchPc # "idle" =>
          /\ \A r1, r2 \in InFlight :
               r1 # r2 => runners[r1].current # runners[r2].current
          /\ Claimed \cap Settled = {}
          /\ Claimed \cup Settled =
               {i \in DOMAIN items : i < index}
          /\ batchPc = "done" =>
               /\ InFlight = {}
               /\ Settled = DOMAIN items
               /\ response[1].status = 200
               /\ DOMAIN response[1].results = DOMAIN items
          /\ DOMAIN items = {} => InFlight = {} /\ index = 0)
  /\ [][/\ \A r \in 1..BATCH_CONCURRENCY_MAX :
             (batchPc = "running" /\ CallStarts(r)) =>
               /\ runners'[r].current = index
               /\ runners'[r].current \in DOMAIN items
               /\ runners'[r].current \notin Claimed \cup Settled
        /\ \A i \in Settled : batchPc = "running" => results'[i] = results[i]]_vars

\* three runners share five items, a later item is settled before an
\* earlier one, and the reply is out
C30_Witness ==
  /\ batchPc = "done"
  /\ Cardinality(DOMAIN items) = 5
  /\ body[1].concurrency = 3
  /\ \E r \in DOMAIN runners : runners[r].current > 5
  /\ response[1].failed > 0

\* no items: the reply holds an empty array and no runner was made
C30_WitnessEmpty ==
  /\ batchPc = "done"
  /\ DOMAIN items = {}
  /\ DOMAIN runners = {}
  /\ DOMAIN response[1].results = {}

====
